---- MODULE Spec2Model ----
(***************************************************************************)
(* A model of the optimizer's on-disk build-artifact cache (class Cache,   *)
(* src/unnamed/part_000): four LMDB namespaces keyed by a path-derived     *)
(* key, asynchronous puts, and the one-shot pruning sweep.                 *)
(*                                                                         *)
(* Conventions.                                                            *)
(*  - A string (a path, a key, an atime, a file hash, a source map's      *)
(*    JSON text) is a sequence of tokens.                                  *)
(*  - Time is counted in minutes instead of milliseconds (MINUTE == 1      *)
(*    for 1000 * 60), so that 30 * DAY fits TLC's integers.                *)
(*  - db.put and db.remove are asynchronous: issuing one appends it to    *)
(*    the queue of operations in flight; LMDB settles them in the order   *)
(*    they were issued, and a later step commits or fails the oldest.     *)
(***************************************************************************)
EXTENDS Integers, Sequences, FiniteSets, TLC

\* ------------------------------------------------------------------ time
MINUTE == 1
HOUR == MINUTE * 60
DAY == HOUR * 24
\* setTimeout(..., 30 * MINUTE) in the constructor
TIMER_DELAY == 30 * MINUTE
\* Date.now() - 30 * DAY in pruneOldKeys
ATIME_WINDOW == 30 * DAY
\* BATCH_SIZE is 1000 in pruneOldKeys; the model scans in batches of this size
BATCH_SIZE == 2

\* Date.now() when the module is loaded (the process start), in minutes
ProcessStart == 100000
\* The bounds of the behaviours explored (see Runs).
MaxElapsed == ATIME_WINDOW + TIMER_DELAY
\* update calls, and failed writes, in one behaviour
MaxUpdates == 2
MaxFaults == 4
\* failed writes in a behaviour that has a sweep
SweepFaults == 1
\* getCode hits (marker puts) in one behaviour
MaxMarkers == 1

\* ------------------------------------------------------------- sequences
Last(s) == s[Len(s)]
Front(s) == SubSeq(s, 1, Len(s) - 1)

\* ------------------------------------------------- decimal text of numbers
Digits == <<"0", "1", "2", "3", "4", "5", "6", "7", "8", "9">>
IsDigit(c) == \E i \in 1..10 : Digits[i] = c
DigitValue(c) == (CHOOSE i \in 1..10 : Digits[i] = c) - 1

RECURSIVE NatToString(_)
\* `${n}` for a non-negative integer n
NatToString(n) ==
  IF n < 10 THEN <<Digits[n + 1]>>
  ELSE NatToString(n \div 10) \o <<Digits[(n % 10) + 1]>>

\* the result of parseInt: NaN, or the integer n
NaN == [nan |-> TRUE, n |-> 0]
Num(n) == [nan |-> FALSE, n |-> n]

RECURSIVE ParseDigits(_, _, _)
\* the value of the longest run of digits at the start of s, from position i
ParseDigits(s, i, acc) ==
  IF i > Len(s) \/ ~IsDigit(s[i]) THEN acc
  ELSE ParseDigits(s, i + 1, acc * 10 + DigitValue(s[i]))

\* parseInt(`${value}`, 10): leading blanks are skipped, an optional sign is
\* read, then the longest run of digits; NaN when there is no digit there
parseInt(s) ==
  LET RECURSIVE SkipBlanks(_)
      SkipBlanks(i) == IF i <= Len(s) /\ s[i] = " " THEN SkipBlanks(i + 1) ELSE i
      b == SkipBlanks(1)
      neg == b <= Len(s) /\ s[b] = "-"
      d == IF b <= Len(s) /\ s[b] \in {"-", "+"} THEN b + 1 ELSE b
  IN IF d > Len(s) \/ ~IsDigit(s[d]) THEN NaN
     ELSE IF neg THEN Num(0 - ParseDigits(s, d, 0)) ELSE Num(ParseDigits(s, d, 0))

\* const GLOBAL_ATIME = `${Date.now()}` at module load
GLOBAL_ATIME == NatToString(ProcessStart)

\* ----------------------------------------------------------------- paths
\* A path is a sequence of segments; an absolute one starts with "/".
isAbsolute(p) == Len(p) > 0 /\ p[1] = "/"

RECURSIVE NormalizeSegs(_, _)
\* the segments after the root with "." dropped and ".." applied
NormalizeSegs(segs, out) ==
  IF segs = <<>> THEN out
  ELSE IF Head(segs) = "." THEN NormalizeSegs(Tail(segs), out)
  ELSE IF Head(segs) = ".."
    THEN NormalizeSegs(Tail(segs), IF out = <<>> THEN out ELSE Front(out))
  ELSE NormalizeSegs(Tail(segs), Append(out, Head(segs)))

\* Path.resolve(path) in a process whose working directory is cwd
resolve(cwd, path) ==
  LET abs == IF isAbsolute(path) THEN path ELSE cwd \o path
  IN <<"/">> \o NormalizeSegs(Tail(abs), <<>>)

IsPrefix(a, b) == Len(a) <= Len(b) /\ SubSeq(b, 1, Len(a)) = a

RECURSIVE CommonLen(_, _)
CommonLen(a, b) ==
  IF a = <<>> \/ b = <<>> \/ Head(a) # Head(b) THEN 0
  ELSE 1 + CommonLen(Tail(a), Tail(b))

RECURSIVE Join(_, _)
\* segs.join(sep), as tokens
Join(segs, sep) ==
  IF segs = <<>> THEN <<>>
  ELSE IF Len(segs) = 1 THEN segs
  ELSE <<Head(segs), sep>> \o Join(Tail(segs), sep)

RECURSIVE Split(_, _, _)
\* text.split(sep): the runs of tokens between occurrences of sep
Split(text, sep, cur) ==
  IF text = <<>> THEN <<cur>>
  ELSE IF Head(text) = sep THEN <<cur>> \o Split(Tail(text), sep, <<>>)
  ELSE Split(Tail(text), sep, cur \o <<Head(text)>>)

RECURSIVE Flatten(_)
Flatten(ss) == IF ss = <<>> THEN <<>> ELSE Head(ss) \o Flatten(Tail(ss))

\* Path.relative(from, to) for two absolute normalized paths on a host whose
\* separator is sep: ".." for each segment of from past the common prefix,
\* then what is left of to
relative(sep, from, to) ==
  LET c == CommonLen(from, to)
      ups == [i \in 1..(Len(from) - c) |-> ".."]
  IN Join(ups \o SubSeq(to, c + 1, Len(to)), sep)

\* getMatchingRoot(path, roots) of @osd/cross-platform: the first configured
\* root that is an ancestor of path, or none
NoRoot == <<>>
getMatchingRoot(path, roots) ==
  IF \E i \in 1..Len(roots) : IsPrefix(roots[i], path)
  THEN roots[CHOOSE i \in 1..Len(roots) :
               /\ IsPrefix(roots[i], path)
               /\ \A j \in 1..(i - 1) : ~IsPrefix(roots[j], path)]
  ELSE NoRoot

\* getKey that ignores the matching root and always takes the first root
getKeyFirstRoot(sep, cwd, roots, prefix, path) ==
  LET resolvedPath == resolve(cwd, path)
      rel == relative(sep, roots[1], resolvedPath)
  IN <<prefix>> \o
       (IF sep # "/" THEN Flatten(Join(Split(rel, sep, <<>>), <<"/">>)) ELSE rel)

\* getKey without the replacement of the host's separator
getKeyRaw(sep, cwd, roots, prefix, path) ==
  LET resolvedPath == resolve(cwd, path)
      matched == getMatchingRoot(resolvedPath, roots)
      pathRoot == IF matched # NoRoot THEN matched ELSE roots[1]
  IN <<prefix>> \o relative(sep, pathRoot, resolvedPath)

\* Cache.getKey on a host with separator sep and working directory cwd
getKey(sep, cwd, roots, prefix, path) ==
  LET resolvedPath == resolve(cwd, path)
      matched == getMatchingRoot(resolvedPath, roots)
      pathRoot == IF matched # NoRoot THEN matched ELSE roots[1]
      rel == relative(sep, pathRoot, resolvedPath)
      normalizedPath ==
        IF sep # "/" THEN Flatten(Join(Split(rel, sep, <<>>), <<"/">>)) ELSE rel
  IN <<prefix>> \o normalizedPath

\* ------------------------------------------------------------------ JSON
\* The values a source map can be: null, a number, an object with one
\* property "version", and an object that refers to itself.
JNull == [t |-> "null"]
JNumber(n) == [t |-> "number", n |-> n]
JObject(x) == [t |-> "object", version |-> x]
JCyclic == [t |-> "cyclic"]

RECURSIVE JSONstringify(_)
\* JSON.stringify(v): [threw, text]; a cyclic structure throws a TypeError
JSONstringify(v) ==
  IF v.t = "null" THEN [threw |-> FALSE, text |-> <<"null">>]
  ELSE IF v.t = "number" THEN [threw |-> FALSE, text |-> NatToString(v.n)]
  ELSE IF v.t = "object" THEN
    LET inner == JSONstringify(v.version)
    IN IF inner.threw THEN inner
       ELSE [threw |-> FALSE,
             text |-> <<"{", "version", ":">> \o inner.text \o <<"}">>]
  ELSE [threw |-> TRUE, text |-> <<>>]

RECURSIVE ParseValue(_)
\* one JSON value at the start of text: [ok, v, rest]
ParseValue(text) ==
  LET bad == [ok |-> FALSE, v |-> JNull, rest |-> <<>>]
      RECURSIVE DigitRun(_)
      DigitRun(i) == IF i <= Len(text) /\ IsDigit(text[i]) THEN DigitRun(i + 1) ELSE i
  IN IF text = <<>> THEN bad
     ELSE IF Head(text) = "null" THEN [ok |-> TRUE, v |-> JNull, rest |-> Tail(text)]
     ELSE IF IsDigit(Head(text)) THEN
       LET e == DigitRun(1)
       IN [ok |-> TRUE, v |-> JNumber(ParseDigits(text, 1, 0)),
           rest |-> SubSeq(text, e, Len(text))]
     ELSE IF Len(text) >= 3 /\ SubSeq(text, 1, 3) = <<"{", "version", ":">> THEN
       LET inner == ParseValue(SubSeq(text, 4, Len(text)))
       IN IF inner.ok /\ inner.rest # <<>> /\ Head(inner.rest) = "}"
          THEN [ok |-> TRUE, v |-> JObject(inner.v), rest |-> Tail(inner.rest)]
          ELSE bad
     ELSE bad

\* JSON.parse(text): [threw, v]; text that is not one JSON value throws
JSONparse(text) ==
  LET r == ParseValue(text)
  IN IF r.ok /\ r.rest = <<>> THEN [threw |-> FALSE, v |-> r.v]
     ELSE [threw |-> TRUE, v |-> JNull]

\* ------------------------------------------------------- configuration
\* the host's separator and working directory, and the Cache's config
PathSep == "/"
Cwd == <<"/", "C">>
RootA == <<"/", "A">>
RootB == <<"/", "B">>
Prefix == "v1:"
\* config.pathRoot as the constructor may be given it: an array of roots, or
\* one root
RootConfigs ==
  { [array |-> TRUE, v |-> <<RootA, RootB>>],
    [array |-> TRUE, v |-> <<RootA, <<"B">>>>],
    [array |-> FALSE, v |-> <<"A">>] }

NoConfig == [array |-> TRUE, v |-> <<>>]

\* the paths the optimizer asks about: under the first root, under the second
\* root, and (relative to the working directory) under neither
Paths == { <<"/", "A", "f">>, <<"/", "B", "f">>, <<"g">> }

\* the compiled files update is given
Files ==
  { [filehash |-> <<"h1">>, code |-> <<"c1">>, map |-> JObject(JNumber(3))],
    [filehash |-> <<"h2">>, code |-> <<"c2">>, map |-> JNull],
    [filehash |-> <<"h3">>, code |-> <<"c3">>, map |-> JObject(JCyclic)] }
NoFile == [filehash |-> <<>>, code |-> <<>>, map |-> JNull]

Namespaces == {"atimes", "hashes", "codes", "sourceMaps"}

\* ------------------------------------------------- the store's contents
\* A namespace is a function from the keys it holds to their values.
\* a put that replaces the namespace by the one entry
PutKeyOnly(f, k, v) == [x \in {k} |-> v]

PutKey(f, k, v) == [x \in (DOMAIN f) \cup {k} |-> IF x = k THEN v ELSE f[x]]
RemoveKey(f, k) == [x \in (DOMAIN f) \ {k} |-> f[x]]
EmptyDb == [x \in {} |-> <<>>]

\* LMDB keeps its keys in byte order; tokens in the byte order of their text
TokenOrder == <<"..", "/", "A", "B", "C", "f", "g", "old", "v1:">>
TokenRank(t) == CHOOSE i \in 1..Len(TokenOrder) : TokenOrder[i] = t
RECURSIVE KeyLess(_, _)
KeyLess(a, b) ==
  IF b = <<>> THEN FALSE
  ELSE IF a = <<>> THEN TRUE
  ELSE IF Head(a) # Head(b) THEN TokenRank(Head(a)) < TokenRank(Head(b))
  ELSE KeyLess(Tail(a), Tail(b))

RECURSIVE SortKeys(_)
\* the keys of a set in the store's order
SortKeys(ks) ==
  IF ks = {} THEN <<>>
  ELSE LET m == CHOOSE k \in ks : \A o \in ks \ {k} : KeyLess(k, o)
       IN <<m>> \o SortKeys(ks \ {m})

\* What earlier processes left on disk: for each key an atime and the three
\* artifacts. The atimes are a stale one, a fresh one, one exactly at the
\* limit of a sweep run at the earliest moment, and one that is no number.
KeyOld == <<Prefix, "old">>
KeyF == <<Prefix, "f">>
KeyG == <<Prefix, "..", "/", "C", "/", "g">>
StaleAtime == NatToString(ProcessStart - ATIME_WINDOW - DAY)
FreshAtime == NatToString(ProcessStart - DAY)
EdgeAtime == NatToString(ProcessStart + TIMER_DELAY - ATIME_WINDOW)
GarbageAtime == <<"x">>
GoodMapText == <<"{", "version", ":", "3", "}">>
BadMapText == <<"{", "version">>

DiskOf(atimes, maps) ==
  [ns \in Namespaces |->
     IF ns = "atimes" THEN atimes
     ELSE IF ns = "sourceMaps" THEN maps
     ELSE [k \in DOMAIN atimes |-> IF ns = "hashes" THEN <<"h0">> ELSE <<"c0">>]]

EmptyDisk == DiskOf(EmptyDb, EmptyDb)

Disks ==
  { EmptyDisk,
    DiskOf([k \in {KeyF} |-> StaleAtime], [k \in {KeyF} |-> BadMapText]),
    DiskOf([k \in {KeyG, KeyF, KeyOld} |->
              IF k = KeyG THEN FreshAtime
              ELSE IF k = KeyF THEN StaleAtime ELSE GarbageAtime],
           [k \in {KeyG, KeyF, KeyOld} |-> GoodMapText]),
    DiskOf([k \in {KeyG, KeyF, KeyOld} |->
              IF k = KeyF THEN EdgeAtime ELSE FreshAtime],
           [k \in {KeyG, KeyF, KeyOld} |-> GoodMapText]) }

\* ------------------------------------------------------------- the state
VARIABLES
  run,       \* this behaviour's disk and bounds, see Runs
  now,       \* Date.now()
  cache,     \* the Cache instance: [st, config, log]
  timer,     \* the pruning timer: [st, due, fired]
  store,     \* the four namespaces on disk
  ops,       \* the puts and removes in flight, oldest first
  calls,     \* the update calls made so far, by number; `at` is the state of
             \* the sweep and the calls still pending when the call was made
  sweep,     \* pruneOldKeys, see NoSweep
  lastDone,  \* per path, the file of the last update that resolved
  used,      \* how many writes have failed, how many getCode calls hit
  ev         \* what the last step did and returned

vars == <<run, now, cache, timer, store, ops, calls, sweep, lastDone, used, ev>>

PutOp(call, ns, key, value) ==
  [kind |-> "put", call |-> call, ns |-> ns, key |-> key, value |-> value]
RemoveOp(ns, key) ==
  [kind |-> "remove", call |-> 0, ns |-> ns, key |-> key, value |-> <<>>]

InFlight == {ops[i] : i \in 1..Len(ops)}

\* seen: the atime read for each key scanned; removed: the keys whose removal
\* was issued; invalidKeys, validKeys: the two arrays of pruneOldKeys; stale:
\* every key pushed to invalidKeys so far; pause: the batch awaits the 1 ms
\* pause
NoSweep ==
  [st |-> "idle", limit |-> 0, cursor |-> <<>>, await |-> {}, seen |-> EmptyDb,
   removed |-> {}, invalidKeys |-> {}, validKeys |-> {}, stale |-> {},
   pause |-> FALSE]
NoEvent == [type |-> "none"]

\* The behaviours explored. A behaviour starts from a disk and is bounded in
\* the time it covers (horizon), in its update calls, in its failed writes
\* (faults), in its getCode hits (markers), and in whether the caller makes
\* reads that issue nothing and calls close; log tells whether the caller
\* gives the constructor a diagnostic sink (config.log).
Run(disk, horizon, updates, faults_, markers, reads, log) ==
  [disk |-> disk, horizon |-> horizon, updates |-> updates, faults |-> faults_,
   markers |-> markers, reads |-> reads, log |-> log]

Runs ==
  \* a sweep over each disk, with reads and close
  { Run(d, MaxElapsed, 0, SweepFaults, 0, TRUE, TRUE) : d \in Disks }
  \* a sweep with an update call and a getCode hit beside it
  \cup { Run(d, MaxElapsed, 1, SweepFaults, MaxMarkers, FALSE, FALSE) : d \in Disks }
  \* before the timer is due: update calls that overlap, no write failing
  \cup { Run(EmptyDisk, 0, MaxUpdates, 0, 0, FALSE, TRUE) }
  \* before the timer is due: one update call, any of its writes failing,
  \* with a sink and without
  \cup { Run(EmptyDisk, 0, 1, MaxFaults, MaxMarkers, TRUE, log) : log \in BOOLEAN }

Init ==
  /\ run \in Runs
  /\ store = run.disk
  /\ now = ProcessStart
  /\ cache = [st |-> "none", config |-> NoConfig, log |-> FALSE]
  /\ timer = [st |-> "none", due |-> 0, fired |-> 0]
  /\ ops = <<>>
  /\ calls = <<>>
  /\ sweep = NoSweep
  /\ lastDone = [p \in Paths |-> NoFile]
  /\ used = [faults |-> 0, markers |-> 0]
  /\ ev = NoEvent

\* ----------------------------------------------------------- constructor
\* Array.isArray(config.pathRoot) ? config.pathRoot : [config.pathRoot]
pathRootsOf(cfg) == IF cfg.array THEN cfg.v ELSE <<cfg.v>>

\* the validation with some for every
rootsValidSome(pathRoots) ==
  \E i \in 1..Len(pathRoots) : isAbsolute(pathRoots[i])

\* pathRoots.every((pathRoot) => Path.isAbsolute(pathRoot))
rootsValid(pathRoots) ==
  \A i \in 1..Len(pathRoots) : isAbsolute(pathRoots[i])

\* new Cache(config): throws unless every root is absolute; otherwise opens
\* the store and schedules the one pruning timer
Construct(cfg) ==
  /\ cache.st = "none"
  /\ IF ~rootsValid(pathRootsOf(cfg))
     THEN /\ ev' = [type |-> "construct", cfg |-> cfg, threw |-> TRUE]
          /\ UNCHANGED <<cache, timer>>
     ELSE /\ cache' = [st |-> "open", config |-> cfg, log |-> run.log]
          /\ timer' = [st |-> "pending", due |-> now + TIMER_DELAY, fired |-> 0]
          /\ ev' = [type |-> "construct", cfg |-> cfg, threw |-> FALSE]
  /\ UNCHANGED <<run, now, store, ops, calls, sweep, lastDone, used>>

\* Time passes: the process runs for 30 days before it constructs the Cache,
\* or the 30 minutes to the timer's due time pass (the timer pending or
\* cancelled).
Advance(d) ==
  /\ now + d <= ProcessStart + run.horizon
  /\ \/ cache.st = "none" /\ d = ATIME_WINDOW
     \/ timer.st \in {"pending", "cleared"} /\ d = TIMER_DELAY /\ now + d <= timer.due
  /\ now' = now + d
  /\ ev' = NoEvent
  /\ UNCHANGED <<run, cache, timer, store, ops, calls, sweep, lastDone, used>>

\* this.getKey(path)
KeyTable ==
  [c \in RootConfigs, p \in Paths |->
     getKey(PathSep, Cwd, IF c.array THEN c.v ELSE <<c.v>>, Prefix, p)]
\* a key that also depends on what the store holds
KeyOfStore(path) ==
  KeyTable[cache.config, path]
    \o (IF DOMAIN store["codes"] = {} THEN <<>> ELSE <<"old">>)

Key(path) == KeyTable[cache.config, path]

\* ---------------------------------------------------------------- logging
\* dbName(db): the name the namespace was opened with
dbName(db) == db

\* error.stack of the error the store threw
ErrorStack == "Error: store"

\* debug writing its line whether or not a sink was given
debugAlways(log, type, db, key) ==
  <<[type |-> type, db |-> dbName(db), key |-> key]>>

\* Cache.debug(type, db, key): the lines written to the sink, one line
\* `${type}   [${dbName(db)}]   ${String(key)}` if there is a sink
debug(log, type, db, key) ==
  IF log THEN <<[type |-> type, db |-> dbName(db), key |-> key]>> ELSE <<>>

\* logError writing to the standard error stream only when a sink was given
logErrorIfSink(log, type, db, key) ==
  [lines |-> debug(log, <<"ERROR/", type>>, db, key \o <<": ", ErrorStack>>),
   stderr |-> IF log
              THEN <<[type |-> type, db |-> dbName(db), key |-> key,
                      stack |-> ErrorStack]>>
              ELSE <<>>]

\* Cache.logError(type, db, key, error): the debug line tagged ERROR/type
\* whose text is the key, ": " and the stack, then the line
\* `[@osd/optimizer/node] ${type} error [${dbName(db)}/${key}]: ${stack}` on
\* process.stderr. What it writes to the sink and to stderr.
logError(log, type, db, key) ==
  [lines |-> debug(log, <<"ERROR/", type>>, db, key \o <<": ", ErrorStack>>),
   stderr |-> <<[type |-> type, db |-> dbName(db), key |-> key,
                 stack |-> ErrorStack]>>]

\* ------------------------------------------------------------------ reads
\* db.get(key): throws on a storage fault, else the value or undefined
dbGet(db, key, fault) ==
  IF fault THEN [threw |-> TRUE, def |-> FALSE, v |-> <<>>]
  ELSE IF key \in DOMAIN store[db]
    THEN [threw |-> FALSE, def |-> TRUE, v |-> store[db][key]]
    ELSE [threw |-> FALSE, def |-> FALSE, v |-> <<>>]

\* safeGet without its try/catch: the store's error propagates
safeGetRethrows(db, key, fault) == dbGet(db, key, fault)

\* Cache.safeGet: the value, or undefined on a miss and on an error
safeGet(db, key, fault) ==
  LET r == dbGet(db, key, fault)
  IN IF r.threw THEN [threw |-> FALSE, def |-> FALSE, v |-> <<>>] ELSE r

\* what Cache.safeGet writes: HIT or MISS by db.get's value, or the error
safeGetLog(db, key, fault) ==
  LET r == dbGet(db, key, fault)
  IN IF r.threw THEN logError(cache.log, "GET", db, key)
     ELSE [lines |-> debug(cache.log, IF r.def THEN <<"HIT">> ELSE <<"MISS">>,
                           db, key),
           stderr |-> <<>>]

\* what Cache.safePut writes once db.put has settled: PUT, or the error
safePutLog(db, key, failed) ==
  IF failed THEN logError(cache.log, "PUT", db, key)
  ELSE [lines |-> debug(cache.log, <<"PUT">>, db, key), stderr |-> <<>>]

\* getFileHash looking into the wrong namespace
getFileHashOfCodes(path, fault) == safeGet("codes", Key(path), fault)

\* Cache.getFileHash(path)
getFileHash(path, fault) == safeGet("hashes", Key(path), fault)

\* getCode with its test inverted: the marker is written on a miss
getCodePutsOnMiss(key, code) ==
  IF ~code.def THEN <<PutOp(0, "atimes", key, GLOBAL_ATIME)>> ELSE <<>>

\* getCode stamping the entry with the time of the access
getCodePutsNow(key, code) ==
  IF code.def THEN <<PutOp(0, "atimes", key, NatToString(now))>> ELSE <<>>

\* the puts Cache.getCode issues once it has looked up code
getCodePuts(key, code) ==
  IF code.def THEN <<PutOp(0, "atimes", key, GLOBAL_ATIME)>> ELSE <<>>

\* Cache.getCode(path): what it returns
getCode(path, fault) == safeGet("codes", Key(path), fault)

\* Cache.getSourceMap(path): the parsed map, undefined, or JSON.parse's error
getSourceMap(path, fault) ==
  LET map == safeGet("sourceMaps", Key(path), fault)
  IN IF map.threw THEN [threw |-> TRUE, def |-> FALSE, v |-> JNull]
     ELSE IF map.def
       THEN LET parsed == JSONparse(map.v)
            IN [threw |-> parsed.threw, def |-> ~parsed.threw, v |-> parsed.v]
       ELSE [threw |-> FALSE, def |-> FALSE, v |-> JNull]

ReadEvent(type, db, path, fault, r, issued) ==
  [type |-> type, path |-> path, key |-> Key(path), fault |-> fault,
   threw |-> r.threw, def |-> r.def, issued |-> issued,
   v |-> IF type = "getSourceMap" THEN <<>> ELSE r.v,
   map |-> IF type = "getSourceMap" THEN r.v ELSE JNull,
   lines |-> safeGetLog(db, Key(path), fault).lines,
   stderr |-> safeGetLog(db, Key(path), fault).stderr]

GetFileHash(path, fault) ==
  /\ cache.st = "open"
  /\ run.reads
  /\ ev' = ReadEvent("getFileHash", "hashes", path, fault, getFileHash(path, fault), <<>>)
  /\ UNCHANGED <<run, now, cache, timer, store, ops, calls, sweep, lastDone, used>>

GetCode(path, fault) ==
  /\ cache.st = "open"
  /\ LET code == getCode(path, fault)
         puts == IF code.threw THEN <<>> ELSE getCodePuts(Key(path), code)
     IN /\ IF puts # <<>> THEN used.markers < run.markers ELSE run.reads
        /\ ops' = ops \o puts
        /\ used' = [used EXCEPT !.markers = @ + Len(puts)]
        /\ ev' = ReadEvent("getCode", "codes", path, fault, code, puts)
  /\ UNCHANGED <<run, now, cache, timer, store, calls, sweep, lastDone>>

GetSourceMap(path, fault) ==
  /\ cache.st = "open"
  /\ run.reads
  /\ ev' = ReadEvent("getSourceMap", "sourceMaps", path, fault, getSourceMap(path, fault), <<>>)
  /\ UNCHANGED <<run, now, cache, timer, store, ops, calls, sweep, lastDone, used>>

\* ----------------------------------------------------------------- update
\* An update that gives the file hash and the code to each other's namespace.
updatePutsSwapped(id, key, file) ==
  LET first == << PutOp(id, "atimes", key, GLOBAL_ATIME),
                  PutOp(id, "hashes", key, file.code),
                  PutOp(id, "codes", key, file.filehash) >>
      json == JSONstringify(file.map)
  IN IF json.threw THEN [threw |-> TRUE, puts |-> first]
     ELSE [threw |-> FALSE,
           puts |-> Append(first, PutOp(id, "sourceMaps", key, json.text))]

\* The synchronous part of Cache.update: the array given to Promise.all is
\* built left to right, so the first three safePut calls have issued their
\* puts when JSON.stringify runs; if it throws, the async function rejects.
updatePuts(id, key, file) ==
  LET first == << PutOp(id, "atimes", key, GLOBAL_ATIME),
                  PutOp(id, "hashes", key, file.filehash),
                  PutOp(id, "codes", key, file.code) >>
      json == JSONstringify(file.map)
  IN IF json.threw THEN [threw |-> TRUE, puts |-> first]
     ELSE [threw |-> FALSE,
           puts |-> Append(first, PutOp(id, "sourceMaps", key, json.text))]

Update(path, file) ==
  /\ cache.st = "open"
  /\ Len(calls) < run.updates
  /\ LET id == Len(calls) + 1
         u == updatePuts(id, Key(path), file)
     IN /\ ops' = ops \o u.puts
        /\ calls' = Append(calls, [path |-> path, key |-> Key(path), file |-> file,
                                   st |-> IF u.threw THEN "rejected" ELSE "pending",
                                   done |-> {}, failed |-> {},
                                   at |-> [sweep |-> sweep.st,
                                           pending |-> {j \in 1..Len(calls) :
                                                          calls[j].st = "pending"}]])
        /\ ev' = [type |-> "update", call |-> id, threw |-> u.threw, issued |-> u.puts]
  /\ UNCHANGED <<run, now, cache, timer, store, sweep, lastDone, used>>

\* safePut without its try/catch: the failed put rejects Promise.all
safePutRejects(c, ns) == [c EXCEPT !.failed = @ \cup {ns}, !.st = "rejected"]

\* Cache.safePut when db.put fails: the error is caught and logged, and the
\* promise safePut returned resolves
safePutFailed(c, ns) == [c EXCEPT !.failed = @ \cup {ns}]

\* update awaiting only the first of its safePut promises
updateAwaitsFirst(id, inflight) ==
  {o \in inflight : o.kind = "put" /\ o.call = id /\ o.ns = "atimes"}

\* the puts `await Promise.all([...])` of update call id still waits for,
\* among those in flight
updateAwaits(id, inflight) == {o \in inflight : o.kind = "put" /\ o.call = id}

\* update waiting, besides its puts, for a sweep in progress to end
updateContinuesAfterSweep(c, id, rest) ==
  IF /\ c.st = "pending"
     /\ updateAwaits(id, {rest[i] : i \in 1..Len(rest)}) = {}
     /\ sweep.st # "waiting"
  THEN [c EXCEPT !.st = "resolved"] ELSE c

\* The continuation of update's await: once a put of call id has settled and
\* Promise.all has nothing left to wait for, the call's completion resolves.
\* c is the call's record after the put settled, rest the operations left.
updateContinues(c, id, rest) ==
  IF c.st = "pending" /\ updateAwaits(id, {rest[i] : i \in 1..Len(rest)}) = {}
  THEN [c EXCEPT !.st = "resolved"] ELSE c

\* what a settled put o does to the calls, given its call's record c after it
PutSettled(o, c) ==
  LET after == updateContinues(c, o.call, Tail(ops))
  IN /\ calls' = [calls EXCEPT ![o.call] = after]
     /\ lastDone' = IF after.st = "resolved" /\ c.st = "pending"
                    THEN [lastDone EXCEPT ![c.path] = c.file] ELSE lastDone

\* the oldest operation in flight is a put and it commits: db.put's promise
\* resolves
CommitPut ==
  /\ ops # <<>> /\ Head(ops).kind = "put"
  /\ LET o == Head(ops)
     IN /\ store' = [store EXCEPT ![o.ns] = PutKey(@, o.key, o.value)]
        /\ IF o.call = 0 THEN UNCHANGED <<calls, lastDone>>
           ELSE PutSettled(o, [calls[o.call] EXCEPT !.done = @ \cup {o.ns}])
        /\ ev' = [type |-> "commit", op |-> o,
                  lines |-> safePutLog(o.ns, o.key, FALSE).lines,
                  stderr |-> safePutLog(o.ns, o.key, FALSE).stderr]
  /\ ops' = Tail(ops)
  /\ UNCHANGED <<run, now, cache, timer, sweep, used>>

\* The safePut promise of getCode's marker write, which getCode drops: were
\* it to reject, nothing would handle the rejection.
MarkerCall(key) ==
  [path |-> <<>>, key |-> key, file |-> NoFile, st |-> "pending",
   done |-> {}, failed |-> {}, at |-> [sweep |-> sweep.st, pending |-> {}]]

\* the oldest operation in flight is a put and it fails: db.put throws or its
\* promise rejects
FailPut ==
  /\ ops # <<>> /\ Head(ops).kind = "put"
  /\ used.faults < run.faults
  /\ LET o == Head(ops)
     IN /\ IF o.call = 0 THEN UNCHANGED <<calls, lastDone>>
           ELSE PutSettled(o, safePutFailed(calls[o.call], o.ns))
        /\ ev' = [type |-> "putFailed", op |-> o,
                  unhandled |-> o.call = 0
                                /\ safePutFailed(MarkerCall(o.key), o.ns).st = "rejected",
                  lines |-> safePutLog(o.ns, o.key, TRUE).lines,
                  stderr |-> safePutLog(o.ns, o.key, TRUE).stderr]
  /\ used' = [used EXCEPT !.faults = @ + 1]
  /\ ops' = Tail(ops)
  /\ UNCHANGED <<run, now, cache, timer, store, sweep>>

\* ------------------------------------------------------------------ close
\* clearTimeout that forgets the timer
clearTimeoutSkipped(t) == t

\* clearTimeout(this.timer): a pending timer is cancelled, any other is left
clearTimeout(t) == IF t.st = "pending" THEN [t EXCEPT !.st = "cleared"] ELSE t

\* this.codes.close() of the store: it closes a live environment; what it
\* does with one already closed is the store's choice (fault: it throws)
dbClose(st, fault) == [threw |-> st = "closed" /\ fault]

\* Cache.close(): clearTimeout, then `return this.codes?.close?.()`, whose
\* error, if any, goes to the caller. this.codes is never cleared.
Close(fault) ==
  /\ cache.st \in {"open", "closed"}
  /\ run.reads
  /\ timer' = clearTimeout(timer)
  /\ cache' = [cache EXCEPT !.st = "closed"]
  /\ ev' = [type |-> "close", second |-> cache.st = "closed",
            threw |-> dbClose(cache.st, fault).threw]
  /\ UNCHANGED <<run, now, store, ops, calls, sweep, lastDone, used>>

\* ------------------------------------------------------------ pruneOldKeys
\* the staleness test with <= for <
IsStaleInclusive(value, limit) ==
  LET atime == parseInt(value)
  IN atime.nan \/ atime.n <= limit

\* Number.isNaN(atime) || atime < ATIME_LIMIT
IsStale(value, limit) ==
  LET atime == parseInt(value)
  IN atime.nan \/ atime.n < limit

\* the loop with the batch test `>` for `>=`: a batch of one entry more
ScanBatchOffByOne(cursor, limit) ==
  LET rest == SortKeys({k \in DOMAIN store["atimes"] : KeyLess(cursor, k)})
      n == IF Len(rest) < BATCH_SIZE + 1 THEN Len(rest) ELSE BATCH_SIZE + 1
      keys == {rest[i] : i \in 1..n}
      invalidKeys == {k \in keys : IsStale(store["atimes"][k], limit)}
  IN [full |-> Len(rest) >= BATCH_SIZE + 1,
      cursor |-> IF n = 0 THEN cursor ELSE rest[n],
      invalidKeys |-> invalidKeys,
      validKeys |-> keys \ invalidKeys]

\* One run of the for loop from the cursor to its next await or to its end:
\* the entries scanned, whether they fill a batch, and those found stale.
ScanBatch(cursor, limit) ==
  LET rest == SortKeys({k \in DOMAIN store["atimes"] : KeyLess(cursor, k)})
      n == IF Len(rest) < BATCH_SIZE THEN Len(rest) ELSE BATCH_SIZE
      keys == {rest[i] : i \in 1..n}
      invalidKeys == {k \in keys : IsStale(store["atimes"][k], limit)}
  IN [full |-> Len(rest) >= BATCH_SIZE,
      cursor |-> IF n = 0 THEN cursor ELSE rest[n],
      invalidKeys |-> invalidKeys,
      validKeys |-> keys \ invalidKeys]

RECURSIVE RemovesOf(_)
\* the removes issued for a list of stale keys, in the order of the code
RemovesOf(ks) ==
  IF ks = <<>> THEN <<>>
  ELSE << RemoveOp("atimes", Head(ks)), RemoveOp("hashes", Head(ks)),
          RemoveOp("codes", Head(ks)), RemoveOp("sourceMaps", Head(ks)) >>
         \o RemovesOf(Tail(ks))

\* a batch that spares the stale keys for which a put is in flight
batchRemovesRechecked(b) ==
  RemovesOf(SortKeys({k \in b.invalidKeys :
                        \A o \in InFlight : ~(o.kind = "put" /\ o.key = k)}))

\* a batch that removes the stale keys from atimes only
batchRemovesMarkerOnly(b) ==
  SelectSeq(RemovesOf(SortKeys(b.invalidKeys)), LAMBDA o : o.ns = "atimes")

\* what a full batch b issues: the removes of its stale keys (none, and a 1 ms
\* pause, when it has no stale key)
batchRemoves(b) == RemovesOf(SortKeys(b.invalidKeys))

\* pruneOldKeys without its try/catch: an error leaves the async function
uncaught(err) == [failed |-> err, escaped |-> err]

\* try { ... } catch { } around the body of pruneOldKeys: an error raised in
\* it ends the function and goes no further
caught(err) == [failed |-> err, escaped |-> FALSE]

\* pruneOldKeys from the cursor on; an error of the iteration is caught
SweepRun(limit, cursor, fault) ==
  IF fault \/ cache.st # "open"
  THEN /\ sweep' = [sweep EXCEPT !.st = "failed", !.limit = limit, !.await = {},
                                 !.pause = FALSE]
       /\ ev' = [type |-> "sweep", threw |-> TRUE,
                 escaped |-> caught(TRUE).escaped, issued |-> <<>>,
                 scanned |-> {}, invalidKeys |-> {}, pause |-> FALSE]
       /\ UNCHANGED ops
  ELSE LET b == ScanBatch(cursor, limit)
           issued == IF b.full THEN batchRemoves(b) ELSE <<>>
           scanned == b.invalidKeys \cup b.validKeys
           pause == b.full /\ b.invalidKeys = {}
       IN /\ sweep' = [st |-> IF b.full THEN "waiting" ELSE "done",
                       limit |-> limit, cursor |-> b.cursor,
                       await |-> {issued[i] : i \in 1..Len(issued)},
                       seen |-> [k \in (DOMAIN sweep.seen) \cup scanned |->
                                   IF k \in scanned THEN store["atimes"][k]
                                   ELSE sweep.seen[k]],
                       removed |-> sweep.removed
                                     \cup {issued[i].key : i \in 1..Len(issued)},
                       invalidKeys |-> IF b.full THEN {} ELSE b.invalidKeys,
                       validKeys |-> IF b.full THEN {} ELSE b.validKeys,
                       stale |-> sweep.stale \cup b.invalidKeys,
                       pause |-> pause]
          /\ ops' = ops \o issued
          /\ ev' = [type |-> "sweep", threw |-> FALSE, escaped |-> FALSE,
                    issued |-> issued, scanned |-> scanned,
                    invalidKeys |-> b.invalidKeys, pause |-> pause]

\* a timer set with setInterval: it has run its callback and is due again
timerRearmed(t) == [t EXCEPT !.due = now + TIMER_DELAY, !.fired = @ + 1]

\* the setTimeout timer once it has run its callback: it is spent
timerFired(t) == [t EXCEPT !.st = "fired", !.fired = @ + 1]

\* the timer fires: pruneOldKeys starts, with ATIME_LIMIT = Date.now() - 30 * DAY
TimerFire(fault) ==
  /\ timer.st = "pending"
  /\ now >= timer.due
  /\ timer' = timerFired(timer)
  /\ SweepRun(now - ATIME_WINDOW, <<>>, fault)
  /\ UNCHANGED <<run, now, cache, store, calls, lastDone, used>>

\* a pause promise whose resolve is never called
BatchSettledNoPause(sw, inflight) == sw.await \cap inflight = {} /\ ~sw.pause

\* Promise.all of the batch has nothing left to wait for: none of its removes
\* is in flight, and the 1 ms timer of its pause, if any, has called resolve
BatchSettled(sw, inflight) == sw.await \cap inflight = {}

\* `await Promise.all(...)` of a batch resolves (its removes have committed,
\* or its pause is over) and the loop goes on
SweepResume(fault) ==
  /\ sweep.st = "waiting"
  /\ BatchSettled(sweep, InFlight)
  /\ SweepRun(sweep.limit, sweep.cursor, fault)
  /\ UNCHANGED <<run, now, cache, timer, store, calls, lastDone, used>>

\* the oldest operation in flight is a remove and it commits
CommitRemove ==
  /\ ops # <<>> /\ Head(ops).kind = "remove"
  /\ LET o == Head(ops)
     IN /\ store' = [store EXCEPT ![o.ns] = RemoveKey(@, o.key)]
        /\ ev' = [type |-> "removed", op |-> o]
  /\ ops' = Tail(ops)
  /\ UNCHANGED <<run, now, cache, timer, calls, sweep, lastDone, used>>

\* the oldest operation in flight is a remove and it fails: the Promise.all
\* of its batch rejects, which pruneOldKeys catches, and the sweep is over
FailRemove ==
  /\ ops # <<>> /\ Head(ops).kind = "remove"
  /\ LET o == Head(ops)
         awaited == sweep.st = "waiting" /\ o \in sweep.await
     IN /\ sweep' = IF caught(awaited).failed
                    THEN [sweep EXCEPT !.st = "failed", !.await = {}] ELSE sweep
        /\ ev' = [type |-> "removeFailed", op |-> o, awaited |-> awaited,
                  escaped |-> caught(awaited).escaped]
  /\ used.faults < run.faults
  /\ used' = [used EXCEPT !.faults = @ + 1]
  /\ ops' = Tail(ops)
  /\ UNCHANGED <<run, now, cache, timer, store, calls, lastDone>>

\* ------------------------------------------------------ the specification
Next ==
  \/ \E cfg \in RootConfigs : Construct(cfg)
  \/ \E d \in {TIMER_DELAY, ATIME_WINDOW} : Advance(d)
  \/ \E p \in Paths, fault \in BOOLEAN : GetFileHash(p, fault)
  \/ \E p \in Paths, fault \in BOOLEAN : GetCode(p, fault)
  \/ \E p \in Paths, fault \in BOOLEAN : GetSourceMap(p, fault)
  \/ \E p \in Paths, file \in Files : Update(p, file)
  \/ CommitPut
  \/ FailPut
  \/ \E fault \in BOOLEAN : Close(fault)
  \/ \E fault \in BOOLEAN : TimerFire(fault)
  \/ \E fault \in BOOLEAN : SweepResume(fault)
  \/ CommitRemove
  \/ FailRemove

Spec == Init /\ [][Next]_vars

\* The sweep beside one update call, under the scheduling the event loop
\* gives: a write handed to the store settles (the oldest put commits, the
\* oldest remove commits unless it fails), and a sweep whose awaited removes
\* or pause have settled is resumed. The lookups, which change nothing, are
\* left out.
LiveInit == Init /\ run.horizon > 0

LiveNext ==
  \/ \E cfg \in RootConfigs : Construct(cfg)
  \/ \E d \in {TIMER_DELAY, ATIME_WINDOW} : Advance(d)
  \/ \E p \in Paths, file \in Files : Update(p, file)
  \/ CommitPut
  \/ \E fault \in BOOLEAN : Close(fault)
  \/ \E fault \in BOOLEAN : TimerFire(fault)
  \/ \E fault \in BOOLEAN : SweepResume(fault)
  \/ CommitRemove
  \/ FailRemove

LiveSpec ==
  /\ LiveInit /\ [][LiveNext]_vars
  /\ WF_<<ops, sweep>>(CommitPut)
  /\ WF_<<ops, sweep>>(CommitRemove)
  /\ WF_<<ops, sweep>>(\E fault \in BOOLEAN : SweepResume(fault))

\* ================================================================ claims
ReadTypes == {"getFileHash", "getCode", "getSourceMap"}
NamespaceOf(type) ==
  IF type = "getFileHash" THEN "hashes"
  ELSE IF type = "getCode" THEN "codes" ELSE "sourceMaps"
Holds(ns, key) == key \in DOMAIN store[ns]
CallIds == 1..Len(calls)
\* the value update call c writes to namespace ns
ValueOf(c, ns) ==
  IF ns = "atimes" THEN GLOBAL_ATIME
  ELSE IF ns = "hashes" THEN c.file.filehash
  ELSE IF ns = "codes" THEN c.file.code
  ELSE JSONstringify(c.file.map).text
\* every update call made so far has resolved and no put is in flight
AllUpdatesResolved ==
  /\ \A i \in CallIds : calls[i].st = "resolved"
  /\ \A o \in InFlight : o.kind # "put"
\* namespace ns has held an entry for key: on the disk the run started from,
\* or by a committed put of an update call
Written(ns, key) ==
  \/ key \in DOMAIN run.disk[ns]
  \/ \E i \in CallIds : calls[i].key = key /\ ns \in calls[i].done
\* the atime the sweep read for key k was not older than the sweep's limit
FreshWhenScanned(k) ==
  /\ k \in DOMAIN sweep.seen
  /\ LET atime == parseInt(sweep.seen[k])
     IN ~atime.nan /\ atime.n >= sweep.limit
StaleWhenScanned(k) == k \in DOMAIN sweep.seen /\ ~FreshWhenScanned(k)

\* C1: round trip. Once every update call has resolved, with no write failed
\* and no sweep removal issued for the key of path p, getFileHash(p),
\* getCode(p) and getSourceMap(p) return the file hash, the code and the
\* source map of the update of p that resolved last.
C1_RoundTrip ==
  \A p \in Paths :
    ( /\ cache.st = "open"
      /\ lastDone[p] # NoFile
      /\ AllUpdatesResolved
      /\ used.faults = 0
      /\ Key(p) \notin sweep.removed )
    => /\ getFileHash(p, FALSE) = [threw |-> FALSE, def |-> TRUE, v |-> lastDone[p].filehash]
       /\ getCode(p, FALSE) = [threw |-> FALSE, def |-> TRUE, v |-> lastDone[p].code]
       /\ getSourceMap(p, FALSE) = [threw |-> FALSE, def |-> TRUE, v |-> lastDone[p].map]

\* C2: pruning removes every stale entry. Once the sweep has run to its end
\* without an error, every key whose atime was stale when scanned (and that
\* no caller has written since the run began) is absent from all four
\* namespaces.
C2_SweepRemovesStale ==
  ( /\ sweep.st = "done"
    /\ calls = <<>>
    /\ used.markers = 0 )
  => \A k \in DOMAIN sweep.seen :
       StaleWhenScanned(k) => \A ns \in Namespaces : ~Holds(ns, k)

\* C3: the sweep never removes a key whose atime was fresh when it was
\* scanned: every remove issued, in flight or committed is of a key the sweep
\* scanned and found older than its limit (or not a number).
C3_FreshNeverRemoved ==
  /\ sweep.removed \subseteq DOMAIN sweep.seen
  /\ \A k \in sweep.removed : ~FreshWhenScanned(k)
  /\ \A o \in InFlight : o.kind = "remove" => o.key \in sweep.removed
  /\ ev.type \in {"removed", "removeFailed"} => ~FreshWhenScanned(ev.op.key)

\* a batch's removes have committed for a stale key while a key scanned fresh
\* in the same sweep is still in all four namespaces
C3_Witness ==
  /\ ev.type = "removed"
  /\ \A ns \in Namespaces : ~Holds(ns, ev.op.key)
  /\ \E k \in DOMAIN sweep.seen :
       FreshWhenScanned(k) /\ \A ns \in Namespaces : Holds(ns, k)

\* C4: when the store throws during the lookup of getFileHash, getCode or
\* getSourceMap, the method returns undefined, nothing is thrown to the
\* caller, and no put is issued.
C4_ReadFaultIsolated ==
  (ev.type \in ReadTypes /\ ev.fault)
    => (~ev.threw /\ ~ev.def /\ ev.issued = <<>>)

\* the store threw in getCode's lookup of a key that codes holds
C4_Witness ==
  /\ ev.type = "getCode" /\ ev.fault
  /\ Holds("codes", ev.key)
  /\ ~ev.def

\* the source map of update call i can be serialised
Serialisable(i) == ~JSONstringify(calls[i].file.map).threw
\* no other update call and no sweep removal has touched the key of call i
KeyUndisturbed(i) ==
  /\ calls[i].key \notin sweep.removed
  /\ \A j \in CallIds \ {i} : calls[j].key # calls[i].key

\* C5: the four writes of update are independent. Whatever subset of them
\* fails in the store, every one of the four is attempted (settled or in
\* flight), every one that committed is in the store with the value update
\* gave it and stays there when another fails, and the call resolves once the
\* four have settled: a failed put never makes it reject.
C5_WritesIndependent ==
  \A i \in CallIds :
    Serialisable(i) =>
      /\ \A ns \in Namespaces :
           \/ ns \in calls[i].done \cup calls[i].failed
           \/ PutOp(i, ns, calls[i].key, ValueOf(calls[i], ns)) \in InFlight
      /\ calls[i].done \cap calls[i].failed = {}
      /\ KeyUndisturbed(i) =>
           \A ns \in calls[i].done :
             Holds(ns, calls[i].key) /\ store[ns][calls[i].key] = ValueOf(calls[i], ns)
      /\ calls[i].st # "rejected"
      /\ calls[i].done \cup calls[i].failed = Namespaces => calls[i].st = "resolved"

\* an update resolved with some of its writes failed and the others in the
\* store
C5_Witness ==
  \E i \in CallIds :
    /\ calls[i].st = "resolved"
    /\ calls[i].failed # {} /\ calls[i].done # {}
    /\ "atimes" \in calls[i].failed
    /\ \A ns \in calls[i].done :
         Holds(ns, calls[i].key) /\ store[ns][calls[i].key] = ValueOf(calls[i], ns)

\* C6: the completion of update resolves only after all four write attempts
\* have finished, each committed or failed; it is never resolved while a put
\* of the call is in flight.
C6_ResolvesAfterAllFour ==
  \A i \in CallIds :
    calls[i].st = "resolved" =>
      /\ calls[i].done \cup calls[i].failed = Namespaces
      /\ \A o \in InFlight : ~(o.kind = "put" /\ o.call = i)

\* one update has resolved on the settling of its last put while a later
\* update is still waiting for its own
C6_Witness ==
  /\ ev.type \in {"commit", "putFailed"}
  /\ ev.op.call \in CallIds
  /\ calls[ev.op.call].st = "resolved"
  /\ \E j \in CallIds : calls[j].st = "pending" /\ updateAwaits(j, InFlight) # {}

\* C7: getSourceMap never throws to its caller, whatever text sourceMaps
\* holds for the key.
C7_ParseNeverThrows ==
  ev.type = "getSourceMap" => ~ev.threw

\* C8: the completion of update never rejects, also when the source map
\* cannot be serialised.
C8_UpdateNeverRejects ==
  \A i \in CallIds : calls[i].st # "rejected"

\* C9: miss before write. A lookup the store answers, in a namespace that has
\* never held an entry for the key of the path, returns undefined and throws
\* nothing.
C9_MissBeforeWrite ==
  (ev.type \in ReadTypes /\ ~Written(NamespaceOf(ev.type), ev.key))
    => (~ev.def /\ ~ev.threw)

\* a lookup of a path missed although other namespaces hold its key
C9_Witness ==
  /\ ev.type \in ReadTypes /\ ~ev.fault
  /\ ~Written(NamespaceOf(ev.type), ev.key)
  /\ \E ns \in Namespaces : Holds(ns, ev.key)
  /\ ~ev.def

\* C10: access marker on hit. Whenever getCode finds a value in codes it
\* issues one put of GLOBAL_ATIME to atimes under the key of the path, and
\* when such a put commits atimes holds GLOBAL_ATIME for that key.
C10_MarkerOnHit ==
  /\ (ev.type = "getCode" /\ ev.def) =>
       /\ ev.issued = <<PutOp(0, "atimes", ev.key, GLOBAL_ATIME)>>
       /\ PutOp(0, "atimes", ev.key, GLOBAL_ATIME) \in InFlight
  /\ (ev.type = "getCode" /\ ~ev.def) => ev.issued = <<>>
  /\ (ev.type = "commit" /\ ev.op.call = 0) =>
       /\ Holds("atimes", ev.op.key)
       /\ store["atimes"][ev.op.key] = GLOBAL_ATIME

\* the marker put of a getCode hit has committed over an older atime
C10_Witness ==
  /\ ev.type = "commit" /\ ev.op.call = 0
  /\ ev.op.key \in DOMAIN run.disk["atimes"]
  /\ run.disk["atimes"][ev.op.key] # GLOBAL_ATIME
  /\ store["atimes"][ev.op.key] = GLOBAL_ATIME

\* C11: getCode returns the cached code without waiting for the marker write
\* it triggers: when it returns the code, nothing is thrown and the marker
\* put it issued is still in flight, and the value returned is the one codes
\* holds. When that put later fails, no rejected promise is left unhandled.
C11_MarkerNeverBlocksOrFails ==
  /\ (ev.type = "getCode" /\ ev.def) =>
       /\ ~ev.threw
       /\ ev.v = store["codes"][ev.key]
       /\ \A i \in 1..Len(ev.issued) : ev.issued[i] \in InFlight
  /\ (ev.type = "putFailed" /\ ev.op.call = 0) => ~ev.unhandled

\* the marker put of a getCode hit has failed, and codes still holds the key
C11_Witness ==
  /\ ev.type = "putFailed" /\ ev.op.call = 0
  /\ ev.op.ns = "atimes"
  /\ Holds("codes", ev.op.key)

\* C12: pure reads leave the store unchanged. A step in which getFileHash or
\* getSourceMap returns, or getCode returns undefined, issues no put and
\* leaves the four namespaces and the operations in flight as they were.
C12_PureReadsWriteNothing ==
  [][ ( \/ ev'.type \in {"getFileHash", "getSourceMap"}
        \/ (ev'.type = "getCode" /\ ~ev'.def) )
      => (ev'.issued = <<>> /\ ops' = ops /\ store' = store) ]_vars

\* getCode missed on a key that atimes holds, and issued nothing
C12_Witness ==
  /\ ev.type = "getCode" /\ ~ev.fault /\ ~ev.def
  /\ Holds("atimes", ev.key)
  /\ ev.issued = <<>>

\* C13: construction validation. Constructing a Cache whose roots include a
\* path that is not absolute throws, and leaves no store opened and no timer
\* scheduled; a Cache that is open has only absolute roots.
C13_RelativeRootRejected ==
  /\ ( /\ ev.type = "construct"
       /\ \E i \in 1..Len(pathRootsOf(ev.cfg)) : ~isAbsolute(pathRootsOf(ev.cfg)[i]) )
     => /\ ev.threw
        /\ cache = [st |-> "none", config |-> NoConfig, log |-> FALSE]
        /\ timer = [st |-> "none", due |-> 0, fired |-> 0]
        /\ sweep = NoSweep /\ ops = <<>> /\ store = run.disk
  /\ cache.st # "none" =>
       \A i \in 1..Len(pathRootsOf(cache.config)) :
         isAbsolute(pathRootsOf(cache.config)[i])

\* the constructor threw on an array of roots whose first root is absolute
C13_Witness ==
  /\ ev.type = "construct" /\ ev.threw
  /\ ev.cfg.array /\ isAbsolute(ev.cfg.v[1])
  /\ cache.st = "none" /\ timer.st = "none"

\* C14: idempotent close. close() never throws: not when it is the first
\* operation on the Cache, and not when it is called again on a Cache that
\* is already closed.
C14_CloseNeverThrows ==
  ev.type = "close" => ~ev.threw

\* C15: close() cancels the pending pruning timer. A Cache closed before its
\* timer fired has the timer cancelled, and with the timer cancelled the
\* sweep has not started: nothing was scanned, no remove was issued, and
\* every entry the disk had is still there.
C15_CloseCancelsSweep ==
  /\ (cache.st = "closed" /\ timer.st # "fired") => timer.st = "cleared"
  /\ timer.st = "cleared" =>
       /\ sweep = NoSweep
       /\ \A o \in InFlight : o.kind # "remove"
       /\ \A ns \in Namespaces : DOMAIN run.disk[ns] \subseteq DOMAIN store[ns]

\* the timer's due time has passed on a closed Cache whose atimes holds a
\* stale entry, and no sweep has started
C15_Witness ==
  /\ cache.st = "closed" /\ timer.st = "cleared"
  /\ now >= timer.due
  /\ sweep.st = "idle"
  /\ \E k \in DOMAIN store["atimes"] : IsStale(store["atimes"][k], now - ATIME_WINDOW)

\* C16: each Cache starts its pruning sweep at most once. Construction
\* schedules the one timer, due 30 minutes later; the timer runs its callback
\* at most once and not before it is due; a sweep is only ever started by
\* that callback; and no read, update, close or sweep step makes the timer
\* pending again.
C16_SweepStartsOnce ==
  /\ timer.fired <= 1
  /\ (timer.fired = 1) <=> (timer.st = "fired")
  /\ sweep.st # "idle" =>
       (timer.st = "fired" /\ sweep.limit >= timer.due - ATIME_WINDOW)
  /\ (ev.type = "construct" /\ ~ev.threw) =>
       timer = [st |-> "pending", due |-> now + TIMER_DELAY, fired |-> 0]
  /\ (cache.st # "none") <=> (timer.st # "none")

\* close() is called after the sweep has run to its end: the timer is spent
C16_Witness ==
  /\ ev.type = "close"
  /\ sweep.st = "done"
  /\ timer.st = "fired" /\ timer.fired = 1

\* C17: key uniqueness. Under one Cache (one root set and prefix), update
\* calls for paths that resolve to different absolute files use different
\* keys.
C17_KeysUnique ==
  \A i, j \in CallIds :
    resolve(Cwd, calls[i].path) # resolve(Cwd, calls[j].path)
      => calls[i].key # calls[j].key

Derived ==
  {[path |-> calls[i].path, key |-> calls[i].key] : i \in CallIds}
    \cup (IF ev.type \in ReadTypes THEN {[path |-> ev.path, key |-> ev.key]} ELSE {})

\* C19: root selection. In a Cache with two roots, the key of a path under
\* the second root and not under the first is the prefix followed by the
\* path relative to the second root; the key of a path under neither root is
\* the prefix followed by the path relative to the first root.
C19_RootSelection ==
  \A d \in Derived :
    LET roots == pathRootsOf(cache.config)
        abs == resolve(Cwd, d.path)
    IN Len(roots) = 2 =>
         /\ (IsPrefix(roots[2], abs) /\ ~IsPrefix(roots[1], abs))
              => d.key = <<Prefix>> \o relative(PathSep, roots[2], abs)
         /\ (~IsPrefix(roots[2], abs) /\ ~IsPrefix(roots[1], abs))
              => d.key = <<Prefix>> \o relative(PathSep, roots[1], abs)

\* with roots /A and /B, the key of /B/f is "v1:f" and the key of g, which
\* resolves to /C/g, is "v1:../C/g"
C19_Witness ==
  /\ pathRootsOf(cache.config) = <<RootA, RootB>>
  /\ [path |-> <<"/", "B", "f">>, key |-> <<"v1:", "f">>] \in Derived
  /\ [path |-> <<"g">>, key |-> <<"v1:", "..", "/", "C", "/", "g">>] \in Derived

\* ------------------------------------------------- getKey on other hosts
\* getKey as a function of the host and the configuration: a host has a
\* separator and a working directory; the root sets and the paths include
\* files in a directory below a root, so that a key has separators in it.
MaxDerived == 2
Hosts ==
  [sep : {"/", "\\"}, cwd : {Cwd},
   roots : {<<RootA, RootB>>, <<RootB, RootA>>, <<RootA>>},
   prefix : {Prefix}]
HostPaths ==
  Paths \cup { <<"/", "A", "d", "f">>, <<"/", "B", "d", "f">>, <<"d", "g">> }

KeyInit ==
  /\ run \in Hosts
  /\ store = EmptyDisk
  /\ now = ProcessStart
  /\ cache = [st |-> "none", config |-> NoConfig, log |-> FALSE]
  /\ timer = [st |-> "none", due |-> 0, fired |-> 0]
  /\ ops = <<>>
  /\ calls = <<>>
  /\ sweep = NoSweep
  /\ lastDone = [p \in Paths |-> NoFile]
  /\ used = [faults |-> 0, markers |-> 0]
  /\ ev = NoEvent

\* this.getKey(path) on the host and configuration of the behaviour
DeriveKey(path) ==
  /\ Len(calls) < MaxDerived
  /\ calls' = Append(calls,
                [path |-> path,
                 key |-> getKey(run.sep, run.cwd, run.roots, run.prefix, path)])
  /\ UNCHANGED <<run, now, cache, timer, store, ops, sweep, lastDone, used, ev>>

KeyNext == \E p \in HostPaths : DeriveKey(p)

KeySpec == KeyInit /\ [][KeyNext]_vars

\* the tokens of a key
TokensOf(key) == {key[i] : i \in 1..Len(key)}

\* C20: separator normalization. On a host whose separator is not "/", the
\* key derived for a path has no host separator in it, and it is the key a
\* host with separator "/" derives for the same path, roots and prefix.
C20_SeparatorNormalized ==
  \A i \in CallIds :
    /\ run.sep # "/" => run.sep \notin TokensOf(calls[i].key)
    /\ calls[i].key = getKey("/", run.cwd, run.roots, run.prefix, calls[i].path)

\* on a host with separator "\", the keys of a file in a directory below a
\* root and of a file under no root are "v1:d/f" and "v1:../C/g"
C20_Witness ==
  /\ run.sep = "\\"
  /\ \E i \in CallIds : calls[i].key = <<"v1:", "d", "/", "f">>
  /\ \E i \in CallIds : calls[i].key = <<"v1:", "..", "/", "C", "/", "g">>

\* C21: entries are destroyed only by the pruning sweep. The key set of a
\* namespace shrinks only in a step that commits a remove of the sweep; no
\* getFileHash, getCode, getSourceMap, update, put or close step takes a key
\* out of a namespace.
C21_OnlySweepRemoves ==
  [][ (\E ns \in Namespaces : ~(DOMAIN store[ns] \subseteq DOMAIN store'[ns]))
      => /\ ev'.type = "removed"
         /\ ev'.op.key \in sweep.removed
         /\ \A ns \in Namespaces :
              (DOMAIN store[ns]) \ (DOMAIN store'[ns]) \subseteq {ev'.op.key} ]_vars

\* the sweep's remove took out a key that the disk held, in a behaviour in
\* which an update call put another key in
C21_Witness ==
  /\ ev.type = "removed"
  /\ ev.op.key \in DOMAIN run.disk[ev.op.ns] /\ ~Holds(ev.op.ns, ev.op.key)
  /\ \E i \in CallIds :
       /\ calls[i].key # ev.op.key
       /\ calls[i].done = Namespaces
       /\ \A ns \in Namespaces : Holds(ns, calls[i].key)

\* C22: an error raised while the sweep runs, in the iteration of atimes or
\* while a batch is awaited, ends the sweep and goes no further than
\* pruneOldKeys. The Cache stays usable: with the sweep failed, a lookup the
\* store answers still returns what the namespace holds, and update still
\* issues its puts.
C22_SweepErrorSwallowed ==
  /\ (ev.type = "sweep" /\ ev.threw) =>
       (~ev.escaped /\ sweep.st = "failed" /\ ev.issued = <<>>)
  /\ ev.type = "removeFailed" =>
       (~ev.escaped /\ (ev.awaited => sweep.st = "failed"))
  /\ sweep.st = "failed" =>
       /\ sweep.await = {}
       /\ (ev.type \in ReadTypes /\ ~ev.fault /\ ~ev.threw) =>
            (ev.def <=> Holds(NamespaceOf(ev.type), ev.key))
       /\ (ev.type \in {"getFileHash", "getCode"} /\ ev.def) =>
            ev.v = store[NamespaceOf(ev.type)][ev.key]
       /\ (ev.type = "update" /\ ~ev.threw) =>
            (Len(ev.issued) = 4 /\ \A i \in 1..4 : ev.issued[i] \in InFlight)

\* after the iteration of atimes threw, an update call was made and resolved
\* with its four values in the store
C22_Witness ==
  /\ sweep.st = "failed" /\ sweep.removed = {}
  /\ \E i \in CallIds :
       /\ calls[i].at.sweep = "failed"
       /\ calls[i].st = "resolved" /\ calls[i].done = Namespaces
       /\ \A ns \in Namespaces :
            Holds(ns, calls[i].key) /\ store[ns][calls[i].key] = ValueOf(calls[i], ns)
  /\ ev.type = "commit"

\* C23: the sweep holds no lock over the Cache. An update call that has not
\* resolved is waiting for a put of its own that is still in flight, never
\* for the sweep; and a lookup made while the sweep is suspended between two
\* batches returns at once what the namespace holds.
C23_SweepHoldsNoLock ==
  /\ \A i \in CallIds :
       calls[i].st = "pending" => updateAwaits(i, InFlight) # {}
  /\ (ev.type \in ReadTypes /\ sweep.st = "waiting" /\ ~ev.fault /\ ~ev.threw) =>
       (ev.def <=> Holds(NamespaceOf(ev.type), ev.key))

\* an update call made while the sweep was suspended between two batches has
\* resolved, and the sweep is still suspended
C23_Witness ==
  /\ sweep.st = "waiting"
  /\ \E i \in CallIds :
       /\ calls[i].at.sweep = "waiting"
       /\ calls[i].st = "resolved" /\ calls[i].done = Namespaces

\* C24: concurrent updates of the same key. When two update calls for one
\* key, the second made while the first was pending, have both resolved with
\* no put failed (and no other call or sweep removal has touched the key),
\* each of the four namespaces holds for the key the value one of the two
\* calls wrote.
C24_LastWriterWins ==
  \A i, j \in CallIds :
    ( /\ i \in calls[j].at.pending
      /\ calls[i].key = calls[j].key
      /\ calls[i].st = "resolved" /\ calls[j].st = "resolved"
      /\ calls[i].failed = {} /\ calls[j].failed = {}
      /\ calls[i].key \notin sweep.removed
      /\ \A k \in CallIds \ {i, j} : calls[k].key # calls[i].key )
    => \A ns \in Namespaces :
         /\ Holds(ns, calls[i].key)
         /\ store[ns][calls[i].key] \in {ValueOf(calls[i], ns), ValueOf(calls[j], ns)}

\* two overlapping updates of one path with different files have resolved
C24_Witness ==
  \E i, j \in CallIds :
    /\ i \in calls[j].at.pending
    /\ calls[i].path = calls[j].path /\ calls[i].file # calls[j].file
    /\ calls[i].st = "resolved" /\ calls[j].st = "resolved"
    /\ calls[i].failed = {} /\ calls[j].failed = {}
    /\ \A ns \in Namespaces : store[ns][calls[i].key] = ValueOf(calls[j], ns)

\* C25: generation marker. Every put to atimes that getCode or update
\* issues carries GLOBAL_ATIME, the one timestamp taken when the process
\* started, however much time has passed since; getFileHash and getSourceMap
\* issue nothing, and an atimes entry holds GLOBAL_ATIME or what the disk
\* held for it when the process started.
C25_SingleGenerationMarker ==
  /\ \A o \in InFlight :
       (o.kind = "put" /\ o.ns = "atimes") => o.value = GLOBAL_ATIME
  /\ (ev.type \in {"getCode", "update"}) =>
       \A n \in 1..Len(ev.issued) :
         ev.issued[n].ns = "atimes" => ev.issued[n].value = GLOBAL_ATIME
  /\ (ev.type \in {"getFileHash", "getSourceMap"}) => ev.issued = <<>>
  /\ \A k \in DOMAIN store["atimes"] :
       \/ store["atimes"][k] = GLOBAL_ATIME
       \/ k \in DOMAIN run.disk["atimes"]
          /\ store["atimes"][k] = run.disk["atimes"][k]

\* long after the process started, getCode hits an entry an update call
\* wrote and issues its marker
C25_Witness ==
  /\ now > ProcessStart
  /\ ev.type = "getCode" /\ ev.def /\ Len(ev.issued) = 1
  /\ \E i \in CallIds :
       /\ calls[i].key = ev.key /\ "atimes" \in calls[i].done
       /\ calls[i].at.sweep # "idle"

\* C26: diagnostic sink. With a sink, every lookup writes exactly one line
\* to it, tagged HIT when the namespace holds the key, MISS when it does not
\* and ERROR/GET when the store threw, and every put that settles writes
\* exactly one line, tagged PUT when it committed and ERROR/PUT when it
\* failed; each line names the namespace and the key. Without a sink no
\* line is written.
C26_SinkLines ==
  /\ (ev.type \in ReadTypes /\ cache.log) =>
       /\ Len(ev.lines) = 1
       /\ ev.lines[1].db = NamespaceOf(ev.type)
       /\ SubSeq(ev.lines[1].key, 1, Len(ev.key)) = ev.key
       /\ ev.lines[1].type =
            IF ev.fault THEN <<"ERROR/", "GET">>
            ELSE IF Holds(NamespaceOf(ev.type), ev.key) THEN <<"HIT">>
            ELSE <<"MISS">>
  /\ (ev.type \in {"commit", "putFailed"} /\ cache.log) =>
       /\ Len(ev.lines) = 1
       /\ ev.lines[1].db = ev.op.ns
       /\ SubSeq(ev.lines[1].key, 1, Len(ev.op.key)) = ev.op.key
       /\ ev.lines[1].type =
            IF ev.type = "commit" THEN <<"PUT">> ELSE <<"ERROR/", "PUT">>
  /\ (ev.type \in ReadTypes \cup {"commit", "putFailed"} /\ ~cache.log) =>
       ev.lines = <<>>

\* with a sink, a put of an update call has failed and its ERROR/PUT line
\* was written, after the call's first put wrote its PUT line
C26_Witness ==
  /\ cache.log
  /\ ev.type = "putFailed" /\ ev.op.call \in CallIds
  /\ ev.lines = <<[type |-> <<"ERROR/", "PUT">>, db |-> ev.op.ns,
                   key |-> ev.op.key \o <<": ", ErrorStack>>]>>
  /\ calls[ev.op.call].done # {}

\* C27: on every storage error of a lookup or of a put, exactly one line
\* naming the namespace, the key and the error is written to the standard
\* error stream, with a sink and without.
C27_ErrorOnStderr ==
  /\ (ev.type \in ReadTypes /\ ev.fault) =>
       ev.stderr = <<[type |-> "GET", db |-> NamespaceOf(ev.type),
                      key |-> ev.key, stack |-> ErrorStack]>>
  /\ ev.type = "putFailed" =>
       ev.stderr = <<[type |-> "PUT", db |-> ev.op.ns,
                      key |-> ev.op.key, stack |-> ErrorStack]>>

\* without a sink, a lookup on which the store threw wrote its line to the
\* standard error stream and nothing else
C27_Witness ==
  /\ ~cache.log
  /\ ev.type \in ReadTypes /\ ev.fault
  /\ Len(ev.stderr) = 1 /\ ev.lines = <<>>

\* C28: stale/fresh classification. The sweep's limit is the time at which
\* it started minus 30 days (the clock does not move while it runs), and an
\* entry it scanned was put on the stale list exactly when parseInt of the
\* value it read is NaN or less than the limit; a value equal to the limit
\* is fresh.
C28_Classification ==
  /\ sweep.st # "idle" => sweep.limit = now - 30 * DAY
  /\ \A k \in DOMAIN sweep.seen :
       k \in sweep.stale <=>
         (parseInt(sweep.seen[k]).nan \/ parseInt(sweep.seen[k]).n < sweep.limit)
  /\ (ev.type = "sweep" /\ ~ev.threw) =>
       \A k \in ev.scanned :
         k \in ev.invalidKeys <=>
           (parseInt(sweep.seen[k]).nan \/ parseInt(sweep.seen[k]).n < sweep.limit)

\* the sweep has scanned an entry whose atime equals its limit and found it
\* fresh
C28_Witness ==
  \E k \in DOMAIN sweep.seen :
    /\ ~parseInt(sweep.seen[k]).nan
    /\ parseInt(sweep.seen[k]).n = sweep.limit
    /\ k \notin sweep.stale
    /\ \A ns \in Namespaces : Holds(ns, k)
    /\ sweep.st = "done"

\* C29: removals are best-effort for control flow. When a removal the sweep
\* awaits has failed, the sweep has not ended: it is still suspended on its
\* batch and will scan the batches that follow.
C29_SweepContinuesAfterRemoveFailure ==
  (ev.type = "removeFailed" /\ ev.awaited) => sweep.st = "waiting"

\* C30: a suspension point after every full batch. One run of the loop
\* scans at most BATCH_SIZE entries; when it has scanned BATCH_SIZE it
\* suspends, awaiting the removes it issued (four per stale entry of the
\* batch) if the batch held a stale entry and the 1 ms pause otherwise; and
\* while it is suspended, and so when it resumes, both key lists are empty.
C30_SuspendsEveryBatch ==
  /\ (ev.type = "sweep" /\ ~ev.threw) =>
       /\ Cardinality(ev.scanned) <= BATCH_SIZE
       /\ sweep.st = (IF Cardinality(ev.scanned) = BATCH_SIZE
                      THEN "waiting" ELSE "done")
       /\ sweep.st = "waiting" =>
            /\ ev.pause <=> ev.invalidKeys = {}
            /\ Len(ev.issued) = 4 * Cardinality(ev.invalidKeys)
            /\ sweep.await = {ev.issued[n] : n \in 1..Len(ev.issued)}
            /\ \A k \in ev.invalidKeys, ns \in Namespaces :
                 RemoveOp(ns, k) \in sweep.await
       /\ sweep.st = "done" => (~ev.pause /\ ev.issued = <<>>)
  /\ sweep.st = "waiting" =>
       /\ sweep.invalidKeys = {} /\ sweep.validKeys = {}
       /\ sweep.pause <=> sweep.await = {}

\* the sweep is suspended on the pause of a batch without a stale entry,
\* with entries still to scan
C30_Witness ==
  /\ ev.type = "sweep" /\ ev.pause
  /\ sweep.st = "waiting" /\ sweep.await = {}
  /\ Cardinality(ev.scanned) = BATCH_SIZE
  /\ \E k \in DOMAIN store["atimes"] : k \notin DOMAIN sweep.seen

\* C31: sweep termination. Once the timer has fired, the sweep eventually
\* finishes, by reaching the end of atimes or by stopping on an error,
\* whenever the writes in flight settle and the suspended sweep is resumed.
C31_SweepTerminates ==
  (timer.st = "fired") ~> (sweep.st \in {"done", "failed"})

\* the sweep has reached the end of atimes after a suspension on removes
\* that have all committed
C31_Witness ==
  /\ timer.st = "fired" /\ sweep.st = "done"
  /\ sweep.removed # {}
  /\ \A k \in sweep.removed, ns \in Namespaces : ~Holds(ns, k)
  /\ DOMAIN store["atimes"] \subseteq DOMAIN sweep.seen

\* C32: no re-check before removal. A full batch issues the four removes of
\* every key whose marker it read as stale, whether or not a put for that
\* key is in flight at that moment, and a remove that commits deletes the
\* entry whatever value it holds by then: a key refreshed after it was
\* scanned is still removed.
C32_NoRecheckBeforeRemove ==
  /\ (ev.type = "sweep" /\ ~ev.threw /\ sweep.st = "waiting") =>
       \A k \in ev.invalidKeys, ns \in Namespaces :
         RemoveOp(ns, k) \in InFlight /\ k \in sweep.removed
  /\ \A k \in sweep.removed : StaleWhenScanned(k)
  /\ ev.type = "removed" => ~Holds(ev.op.ns, ev.op.key)

\* an update call made before the sweep started had its puts in flight when
\* the sweep read the key's old, stale marker; the puts have committed since
\* and the key is gone from all four namespaces
C32_Witness ==
  /\ ev.type = "removed"
  /\ \E i \in CallIds :
       /\ calls[i].key = ev.op.key
       /\ calls[i].at.sweep = "idle"
       /\ calls[i].st = "resolved" /\ calls[i].done = Namespaces
       /\ StaleWhenScanned(calls[i].key)
       /\ calls[i].key \in DOMAIN run.disk["atimes"]
       /\ sweep.seen[calls[i].key] = run.disk["atimes"][calls[i].key]
       /\ sweep.seen[calls[i].key] # GLOBAL_ATIME
       /\ \A ns \in Namespaces : ~Holds(ns, calls[i].key)

\* C33: an atimes entry that holds this process's GLOBAL_ATIME when a sweep
\* of the same process scans it is never classified stale, however long
\* after the start of the process the Cache was constructed.
C33_CurrentMarkerNeverStale ==
  \A k \in DOMAIN sweep.seen :
    sweep.seen[k] = GLOBAL_ATIME => k \notin sweep.stale

\* C34: every stored artifact stays visible to pruning. When no write has
\* failed and no put and no remove is in flight, every key that hashes,
\* codes or sourceMaps holds is a key of atimes.
C34_ArtifactsHaveMarker ==
  (used.faults = 0 /\ ops = <<>>) =>
    \A ns \in Namespaces : DOMAIN store[ns] \subseteq DOMAIN store["atimes"]

\* an update call made while the sweep was suspended on the removes of the
\* call's own key has resolved after them: nothing is in flight and the
\* key, removed and written again, is in all four namespaces
C34_Witness ==
  /\ used.faults = 0 /\ ops = <<>>
  /\ \E i \in CallIds :
       /\ calls[i].at.sweep = "waiting"
       /\ calls[i].key \in sweep.removed
       /\ calls[i].st = "resolved"
       /\ \A ns \in Namespaces : Holds(ns, calls[i].key)

\* C35: an update whose source map cannot be serialized writes nothing. The
\* call that threw in JSON.stringify has issued no put, and no put of it is
\* in flight or has committed.
C35_UnserializableWritesNothing ==
  /\ (ev.type = "update" /\ ev.threw) => ev.issued = <<>>
  /\ \A i \in CallIds :
       JSONstringify(calls[i].file.map).threw =>
         /\ calls[i].done = {}
         /\ \A o \in InFlight : ~(o.kind = "put" /\ o.call = i)

\* ================================= console: useSendCurrentRequestToOpenSearch
\* The callback the console's send button runs. In this specification `run`
\* is the console's settings, `calls` holds one record per invocation of the
\* callback (pc: the await it is parked on; requests: the length of the
\* selection; toasts: the notifications it raised) and `ops` is the sequence
\* of actions dispatched to the request reducer, each with the invocation
\* that dispatched it. The other variables keep their initial values.
MaxInvocations == 2
MaxRequests == 2

\* settings.toJSON().polling
ConsoleSettings == [polling : BOOLEAN]

ConsoleInit ==
  /\ run \in ConsoleSettings
  /\ store = EmptyDisk
  /\ now = ProcessStart
  /\ cache = [st |-> "none", config |-> NoConfig, log |-> FALSE]
  /\ timer = [st |-> "none", due |-> 0, fired |-> 0]
  /\ ops = <<>>
  /\ calls = <<>>
  /\ sweep = NoSweep
  /\ lastDone = [p \in Paths |-> NoFile]
  /\ used = [faults |-> 0, markers |-> 0]
  /\ ev = NoEvent

\* dispatch(action) of invocation inv
dispatch(inv, type) == <<[inv |-> inv, type |-> type]>>

\* The catch block of the callback, entered with error e: requestFail is
\* dispatched, with e as payload when e.response is set, and otherwise with
\* no payload and the "Unknown Request Error" toast. What it dispatches and
\* the toasts it adds.
catchBlock(inv, response) ==
  [dispatched |-> dispatch(inv, "requestFail"),
   toasts |-> IF response THEN <<>> ELSE <<"unknownErrorTitle">>]

\* a step of the callback: where in the code it ends and, when it is the
\* step that learns the selection, the number of requests (-1 otherwise)
At(at) == [at |-> at, n |-> -1]
Got(at, n) == [at |-> at, n |-> n]

\* what invocation i does from where it is parked: the actions dispatched
\* and the toasts added are appended, and it parks on pc (or is done)
ConsoleStep(i, pc, dispatched, toasts, step) ==
  /\ calls' = [calls EXCEPT ![i].pc = pc, ![i].toasts = @ \o toasts,
                            ![i].requests = IF step.n >= 0 THEN step.n ELSE @]
  /\ ops' = ops \o dispatched
  /\ ev' = [type |-> "console", inv |-> i, step |-> step.at]
  /\ UNCHANGED <<run, now, cache, timer, store, sweep, lastDone, used>>

\* The callback is invoked: registry.getInputEditor(), and the call of
\* editor.getRequestsInRange(), whose promise it awaits.
SendCurrentRequest ==
  /\ Len(calls) < MaxInvocations
  /\ calls' = Append(calls, [pc |-> "getRequestsInRange", requests |-> 0,
                             toasts |-> <<>>])
  /\ ev' = [type |-> "console", inv |-> Len(calls) + 1, step |-> "invoke"]
  /\ UNCHANGED <<run, now, cache, timer, store, ops, sweep, lastDone, used>>

\* editor.getRequestsInRange() settles: it rejects (fault; the error has a
\* response property or not), or it yields n requests. With none, the "no
\* request selected" toast is added and the callback returns; otherwise
\* sendRequest is dispatched, the tracking is scheduled, and the callback
\* awaits uiSettings.get.
RequestsInRangeSettled(i, n, fault, response) ==
  /\ i \in 1..Len(calls) /\ calls[i].pc = "getRequestsInRange"
  /\ IF fault
     THEN /\ n = 0
          /\ ConsoleStep(i, "done", catchBlock(i, response).dispatched,
                         catchBlock(i, response).toasts, At("catch"))
     ELSE /\ ~response
          /\ IF n = 0
             THEN ConsoleStep(i, "done", <<>>, <<"noRequestSelectedTitle">>,
                              Got("noRequest", n))
             ELSE ConsoleStep(i, "uiSettings.get", dispatch(i, "sendRequest"),
                              <<>>, Got("sendRequest", n))

\* uiSettings.get(DATA_WITH_LONG_NUMERALS) settles: on an error the catch
\* block runs, otherwise sendRequestToOpenSearch is called and awaited
UiSettingsSettled(i, fault, response) ==
  /\ i \in 1..Len(calls) /\ calls[i].pc = "uiSettings.get"
  /\ IF fault
     THEN ConsoleStep(i, "done", catchBlock(i, response).dispatched,
                      catchBlock(i, response).toasts, At("catch"))
     ELSE /\ ~response
          /\ ConsoleStep(i, "sendRequestToOpenSearch", <<>>, <<>>, At("send"))

\* sendRequestToOpenSearch settles. When it rejects the catch block runs.
\* Otherwise each result is added to the history (an error of addToHistory
\* is caught in the loop and raises a toast), then with polling on
\* retrieveAutoCompleteInfo is called (autoFault: it throws, so the catch
\* block runs), and last requestSuccess is dispatched.
SendRequestSettled(i, fault, response, historyFails, autoFault) ==
  /\ i \in 1..Len(calls) /\ calls[i].pc = "sendRequestToOpenSearch"
  /\ IF fault
     THEN /\ ~historyFails /\ ~autoFault
          /\ ConsoleStep(i, "done", catchBlock(i, response).dispatched,
                         catchBlock(i, response).toasts, At("catch"))
     ELSE LET saved == IF historyFails THEN <<"couldNotSaveRequestTitle">>
                       ELSE <<>>
          IN IF run.polling /\ autoFault
             THEN ConsoleStep(i, "done", catchBlock(i, response).dispatched,
                              saved \o catchBlock(i, response).toasts, At("catch"))
             ELSE /\ ~autoFault /\ ~response
                  /\ ConsoleStep(i, "done", dispatch(i, "requestSuccess"),
                                 saved, At("success"))

ConsoleNext ==
  \/ SendCurrentRequest
  \/ \E i \in 1..MaxInvocations, n \in 0..MaxRequests, fault, response \in BOOLEAN :
       RequestsInRangeSettled(i, n, fault, response)
  \/ \E i \in 1..MaxInvocations, fault, response \in BOOLEAN :
       UiSettingsSettled(i, fault, response)
  \/ \E i \in 1..MaxInvocations, fault, response, historyFails, autoFault \in BOOLEAN :
       SendRequestSettled(i, fault, response, historyFails, autoFault)

ConsoleSpec == ConsoleInit /\ [][ConsoleNext]_vars

\* the actions of type t that invocation i has dispatched, as positions
DispatchesOf(i, types) ==
  {k \in 1..Len(ops) : ops[k].inv = i /\ ops[k].type \in types}

\* C36: console request dispatch protocol. In every invocation, a
\* requestSuccess or requestFail is preceded by a sendRequest of the same
\* invocation; an invocation that has returned after a sendRequest has
\* dispatched exactly one of requestSuccess and requestFail, and never more
\* than one; an invocation with no selected request dispatches nothing.
C36_DispatchProtocol ==
  \A i \in 1..Len(calls) :
    /\ \A k \in DispatchesOf(i, {"requestSuccess", "requestFail"}) :
         \E j \in DispatchesOf(i, {"sendRequest"}) : j < k
    /\ Cardinality(DispatchesOf(i, {"requestSuccess", "requestFail"})) <= 1
    /\ (calls[i].pc = "done" /\ DispatchesOf(i, {"sendRequest"}) # {}) =>
         Cardinality(DispatchesOf(i, {"requestSuccess", "requestFail"})) = 1
    /\ Cardinality(DispatchesOf(i, {"sendRequest"})) <= 1
    /\ (calls[i].pc = "done" /\ calls[i].requests = 0
        /\ "noRequestSelectedTitle" \in {calls[i].toasts[k] : k \in 1..Len(calls[i].toasts)})
         => DispatchesOf(i, {"sendRequest", "requestSuccess", "requestFail"}) = {}

\* ===================================== ui settings: createOrUpgradeSavedConfig
\* One call of createOrUpgradeSavedConfig(options). In this specification
\* `run` is the options of the call, `calls` is the sequence of calls the
\* function has made to its collaborators (getUpgradeableConfig, the
\* transport's request, savedObjectsClient.create, log.debug) and `ev` is the
\* function's position: pc, the upgradeable config found, the attributes,
\* the settled outcome of the API request, and what the call returned or
\* threw. The other variables keep their initial values.
\* the build number in the options, and the one of the older config
BuildNum == <<"9", "0", "0", "7">>
OldBuildNum == <<"9", "0", "0", "1">>

\* the older config getUpgradeableConfig may find
OldConfig ==
  [def |-> TRUE, id |-> "1.0.0",
   attributes |-> [buildNum |-> OldBuildNum, theme |-> <<"dark">>]]
NoUpgradeable == [def |-> FALSE, id |-> "", attributes |-> <<>>]

\* options: scope, handleWriteErrors, and whether both opensearchClient and
\* index are given
SavedConfigOptions ==
  [scope : {"user", "global"}, handleWriteErrors : BOOLEAN, api : BOOLEAN]

\* the status codes the API request may fail with; NoStatus is an error
\* without a statusCode
ApiStatuses == {401, 403, 404, 500}
NoStatus == 0

\* lodash defaults(object, source): the properties of object, and those of
\* source that object lacks
defaults(object, source) ==
  [k \in (DOMAIN object) \cup (DOMAIN source) |->
     IF k \in DOMAIN object THEN object[k] ELSE source[k]]

\* attributes = defaults({ buildNum }, upgradeableConfig ? its attributes : {})
attributesOf(upgradeableConfig) ==
  defaults([buildNum |-> BuildNum],
           IF upgradeableConfig.def THEN upgradeableConfig.attributes ELSE <<>>)

\* a catch that falls back to saved objects on every API error
fallsBackAlways(statusCode) == TRUE

\* the test of the catch negated: apiError.statusCode is 404 or 401, the API
\* is taken as not available and the function falls back to saved objects
fallsBack(statusCode) == statusCode = 404 \/ statusCode = 401

SavedConfigInit ==
  /\ run \in SavedConfigOptions
  /\ store = EmptyDisk
  /\ now = ProcessStart
  /\ cache = [st |-> "none", config |-> NoConfig, log |-> FALSE]
  /\ timer = [st |-> "none", due |-> 0, fired |-> 0]
  /\ ops = <<>>
  /\ calls = <<>>
  /\ sweep = NoSweep
  /\ lastDone = [p \in Paths |-> NoFile]
  /\ used = [faults |-> 0, markers |-> 0]
  /\ ev = [type |-> "savedConfig", pc |-> "start",
           upgradeableConfig |-> NoUpgradeable, attributes |-> <<>>,
           api |-> "none", statusCode |-> NoStatus, result |-> "none"]

CallTo(fn, body) == [fn |-> fn, body |-> body]

\* log.debug of the upgrade, made when an upgradeable config was found
upgradeLog(upgradeableConfig) ==
  IF upgradeableConfig.def THEN <<CallTo("log.debug", <<>>)>> ELSE <<>>

\* From the attributes on: with opensearchClient and index the PUT request
\* is made and awaited, otherwise savedObjectsClient.create is.
Proceed(upgradeableConfig) ==
  LET attributes == attributesOf(upgradeableConfig)
  IN /\ ev' = [ev EXCEPT !.pc = IF run.api THEN "request" ELSE "create",
                         !.upgradeableConfig = upgradeableConfig,
                         !.attributes = attributes]
     /\ calls' = Append(calls,
                   IF run.api THEN CallTo("transport.request", attributes)
                   ELSE CallTo("savedObjectsClient.create", attributes))

\* the call: for the user scope no older config is looked for, otherwise
\* getUpgradeableConfig is called and awaited
CreateOrUpgrade ==
  /\ ev.pc = "start"
  /\ IF run.scope = "user"
     THEN Proceed(NoUpgradeable)
     ELSE /\ ev' = [ev EXCEPT !.pc = "getUpgradeableConfig"]
          /\ calls' = Append(calls, CallTo("getUpgradeableConfig", <<>>))
  /\ UNCHANGED <<run, now, cache, timer, store, ops, sweep, lastDone, used>>

\* getUpgradeableConfig settles: with an older config, with none, or with an
\* error, which leaves the function
UpgradeableSettled(found, fault) ==
  /\ ev.pc = "getUpgradeableConfig"
  /\ IF fault
     THEN /\ ~found
          /\ ev' = [ev EXCEPT !.pc = "done", !.result = "throws lookup error"]
          /\ UNCHANGED calls
     ELSE Proceed(IF found THEN OldConfig ELSE NoUpgradeable)
  /\ UNCHANGED <<run, now, cache, timer, store, ops, sweep, lastDone, used>>

\* The PUT request settles. On success the upgrade is logged and the function
\* returns undefined. On an error that is not a 404 or a 401 the function
\* returns the attributes when handleWriteErrors is set and throws the error
\* otherwise. On a 404 or a 401 the fallback is logged and
\* savedObjectsClient.create is called and awaited.
RequestSettled(ok, statusCode) ==
  /\ ev.pc = "request"
  /\ IF ok
     THEN /\ statusCode = NoStatus
          /\ ev' = [ev EXCEPT !.pc = "done", !.api = "ok",
                              !.result = "undefined"]
          /\ calls' = calls \o upgradeLog(ev.upgradeableConfig)
     ELSE IF ~fallsBack(statusCode)
       THEN /\ ev' = [ev EXCEPT !.pc = "done", !.api = "failed",
                                !.statusCode = statusCode,
                                !.result = IF run.handleWriteErrors
                                           THEN "attributes"
                                           ELSE "throws apiError"]
            /\ UNCHANGED calls
       ELSE /\ ev' = [ev EXCEPT !.pc = "create", !.api = "failed",
                                !.statusCode = statusCode]
            /\ calls' = calls \o << CallTo("log.debug", <<>>),
                                    CallTo("savedObjectsClient.create",
                                           ev.attributes) >>
  /\ UNCHANGED <<run, now, cache, timer, store, ops, sweep, lastDone, used>>

\* the errors savedObjectsClient.create may fail with
CreateErrors == {"conflict", "notAuthorized", "forbidden", "other"}

\* savedObjectsClient.create settles. On success the upgrade is logged and
\* the function returns undefined. On an error, with handleWriteErrors, a
\* conflict returns undefined and a not-authorized or forbidden error
\* returns the attributes; every other case throws the error.
CreateSettled(ok, error) ==
  /\ ev.pc = "create"
  /\ IF ok
     THEN /\ error = "other"
          /\ ev' = [ev EXCEPT !.pc = "done", !.result = "undefined"]
          /\ calls' = calls \o upgradeLog(ev.upgradeableConfig)
     ELSE /\ ev' = [ev EXCEPT !.pc = "done",
                     !.result =
                       IF run.handleWriteErrors /\ error = "conflict"
                       THEN "undefined"
                       ELSE IF run.handleWriteErrors
                               /\ error \in {"notAuthorized", "forbidden"}
                         THEN "attributes"
                         ELSE "throws error"]
          /\ UNCHANGED calls
  /\ UNCHANGED <<run, now, cache, timer, store, ops, sweep, lastDone, used>>

SavedConfigNext ==
  \/ CreateOrUpgrade
  \/ \E found, fault \in BOOLEAN : UpgradeableSettled(found, fault)
  \/ \E ok \in BOOLEAN, statusCode \in ApiStatuses \cup {NoStatus} :
       RequestSettled(ok, statusCode)
  \/ \E ok \in BOOLEAN, error \in CreateErrors : CreateSettled(ok, error)

SavedConfigSpec == SavedConfigInit /\ [][SavedConfigNext]_vars

\* the positions in `calls` of the calls to fn
CallsTo(fn) == {k \in 1..Len(calls) : calls[k].fn = fn}

\* C37: API first, saved objects as the fallback. When the PUT request has
\* succeeded, create is never called; when it has failed with status 404 or
\* 401, create is called exactly once, after the request and with the
\* attributes the request carried; when it has failed with any other error,
\* create is never called and the function has returned the attributes if
\* handleWriteErrors is set and has thrown the API error otherwise.
C37_ApiFirstThenSavedObjects ==
  /\ ev.api = "ok" =>
       /\ CallsTo("savedObjectsClient.create") = {}
       /\ ev.pc = "done" /\ ev.result = "undefined"
  /\ (ev.api = "failed" /\ ev.statusCode \in {404, 401}) =>
       /\ Cardinality(CallsTo("savedObjectsClient.create")) = 1
       /\ \A c \in CallsTo("savedObjectsClient.create"),
             r \in CallsTo("transport.request") :
            r < c /\ calls[c].body = calls[r].body
                  /\ calls[c].body = attributesOf(ev.upgradeableConfig)
  /\ (ev.api = "failed" /\ ev.statusCode \notin {404, 401}) =>
       /\ CallsTo("savedObjectsClient.create") = {}
       /\ ev.pc = "done"
       /\ ev.result = IF run.handleWriteErrors THEN "attributes"
                      ELSE "throws apiError"
  /\ Cardinality(CallsTo("transport.request")) <= 1
  /\ (run.api /\ CallsTo("savedObjectsClient.create") # {}) =>
       CallsTo("transport.request") # {}

\* the API answered 404, create was called with the attributes upgraded from
\* the older config, and the function has returned
C37_Witness ==
  /\ ev.api = "failed" /\ ev.statusCode = 404
  /\ ev.pc = "done" /\ ev.result = "undefined"
  /\ ev.upgradeableConfig.def
  /\ \E c \in CallsTo("savedObjectsClient.create") :
       calls[c].body = [buildNum |-> BuildNum, theme |-> <<"dark">>]

\* ============================================ data: connectToQueryState
\* The two-way sync of the query services with a state container. In this
\* specification `run` is syncConfig (time and query), `ev` holds the state
\* of the sync (services: what timefilter.getTime() and
\* queryString.getQuery() return; container: stateContainer.get();
\* updateInProgress; pc and state: where the state-container subscriber is
\* and the state it was given; ignored: the service changes the filter has
\* dropped; stimuli: the changes made from outside), `calls` is the sequence
\* of stateContainer.set calls made by connectToQueryState and `ops` the
\* sequence of setter calls made on the services. Everything runs on one
\* thread and the observables deliver a value to their subscribers inside
\* the call that emits it; the subscriber is cut into steps only to show the
\* states in between. The other variables keep their initial values.
MaxStimuli == 3

Times == {"t1", "t2"}
Queries == {"q1", "q2"}
\* timefilter.getTimeDefaults()
TimeDefaults == "t1"
\* a time the container may hold that validateTimeRange rejects, and a
\* query it does not hold
InvalidTime == "invalid"
NoQuery == "none"

SyncConfigs == [time : BOOLEAN, query : BOOLEAN]

\* validateTimeRange(time)
validateTimeRange(time) == time \in Times

\* syncKeys
syncKeys(syncConfig) ==
  (IF syncConfig.time THEN {"time"} ELSE {})
    \cup (IF syncConfig.query THEN {"query"} ELSE {})

\* the filter without the test of updateInProgress
stateFilterNoFlag(updateInProgress, syncConfig, changes) ==
  changes \cap syncKeys(syncConfig) # {}

\* filter(({ changes }) => ...) on state$: nothing passes while
\* updateInProgress; otherwise a change of a synced key passes
stateFilter(updateInProgress, syncConfig, changes) ==
  IF updateInProgress THEN FALSE
  ELSE changes \cap syncKeys(syncConfig) # {}

\* map(({ changes }) => newState) and the merge given to stateContainer.set:
\* { ...stateContainer.get(), ...newState }
mergedState(syncConfig, changes, container, services) ==
  [time |-> IF syncConfig.time /\ "time" \in changes
            THEN services.time ELSE container.time,
   query |-> IF syncConfig.query /\ "query" \in changes
             THEN services.query ELSE container.query]

\* connectToQueryState has returned: the initial syncing has given the
\* container the services' values for the synced keys
SyncInit ==
  /\ run \in SyncConfigs
  /\ store = EmptyDisk
  /\ now = ProcessStart
  /\ cache = [st |-> "none", config |-> NoConfig, log |-> FALSE]
  /\ timer = [st |-> "none", due |-> 0, fired |-> 0]
  /\ ops = <<>>
  /\ calls = <<>>
  /\ sweep = NoSweep
  /\ lastDone = [p \in Paths |-> NoFile]
  /\ used = [faults |-> 0, markers |-> 0]
  /\ \E time \in Times, query \in Queries,
        ctime \in Times \cup {InvalidTime}, cquery \in Queries \cup {NoQuery} :
       /\ run.time => ctime = time
       /\ run.query => cquery = query
       /\ ev = [type |-> "sync", services |-> [time |-> time, query |-> query],
                container |-> [time |-> ctime, query |-> cquery],
                updateInProgress |-> FALSE, pc |-> "idle",
                state |-> [time |-> ctime, query |-> cquery],
                ignored |-> 0, stimuli |-> 0]

\* A service emits `changes` on state$ while the sync is in state e. The
\* filter drops it, or the subscriber calls stateContainer.set with the
\* merged state, on which the container emits and its subscriber starts
\* (updateInProgress = true) with that state.
Emitted(e, changes) ==
  IF stateFilter(e.updateInProgress, run, changes)
  THEN LET merged == mergedState(run, changes, e.container, e.services)
       IN /\ ev' = [e EXCEPT !.container = merged, !.state = merged,
                             !.updateInProgress = TRUE, !.pc = "time"]
          /\ calls' = Append(calls, [fn |-> "stateContainer.set",
                                     state |-> merged,
                                     during |-> e.updateInProgress])
  ELSE /\ ev' = [e EXCEPT !.ignored = @ + 1]
       /\ UNCHANGED calls

\* the application sets the container: the container emits and the
\* subscriber starts with the new state
ContainerSet(state) ==
  /\ ev.pc = "idle" /\ ev.stimuli < MaxStimuli
  /\ state # ev.container
  /\ ev' = [ev EXCEPT !.container = state, !.state = state,
                      !.updateInProgress = TRUE, !.pc = "time",
                      !.stimuli = @ + 1]
  /\ UNCHANGED <<run, now, cache, timer, store, ops, calls, sweep, lastDone, used>>

\* the user changes the time or the query in a service, which emits it
ServiceChange(key, value) ==
  /\ ev.pc = "idle" /\ ev.stimuli < MaxStimuli
  /\ value # ev.services[key]
  /\ Emitted([ev EXCEPT !.services[key] = value, !.stimuli = @ + 1], {key})
  /\ UNCHANGED <<run, now, cache, timer, store, ops, sweep, lastDone, used>>

\* the subscriber's time block: an invalid time is replaced by the
\* defaults, and setTime is called when the time differs from getTime()
ApplyTime ==
  /\ ev.pc = "time"
  /\ LET time == IF validateTimeRange(ev.state.time) THEN ev.state.time
                 ELSE TimeDefaults
     IN IF run.time /\ time # ev.services.time
        THEN /\ ops' = Append(ops, [fn |-> "timefilter.setTime", v |-> time])
             /\ Emitted([ev EXCEPT !.services.time = time, !.pc = "query"],
                        {"time"})
        ELSE /\ ev' = [ev EXCEPT !.pc = "query"]
             /\ UNCHANGED <<ops, calls>>
  /\ UNCHANGED <<run, now, cache, timer, store, sweep, lastDone, used>>

\* the subscriber's query block: setQuery is called when the state holds a
\* query that differs from getQuery()
ApplyQuery ==
  /\ ev.pc = "query"
  /\ LET curQuery == IF ev.state.query # NoQuery THEN ev.state.query
                     ELSE ev.services.query
     IN IF run.query /\ curQuery # ev.services.query
        THEN /\ ops' = Append(ops, [fn |-> "queryString.setQuery", v |-> curQuery])
             /\ Emitted([ev EXCEPT !.services.query = curQuery, !.pc = "end"],
                        {"query"})
        ELSE /\ ev' = [ev EXCEPT !.pc = "end"]
             /\ UNCHANGED <<ops, calls>>
  /\ UNCHANGED <<run, now, cache, timer, store, sweep, lastDone, used>>

\* updateInProgress = false at the end of the subscriber
SubscriberEnd ==
  /\ ev.pc = "end"
  /\ ev' = [ev EXCEPT !.pc = "idle", !.updateInProgress = FALSE]
  /\ UNCHANGED <<run, now, cache, timer, store, ops, calls, sweep, lastDone, used>>

SyncNext ==
  \/ \E time \in Times \cup {InvalidTime}, query \in Queries \cup {NoQuery} :
       ContainerSet([time |-> time, query |-> query])
  \/ \E value \in Times : ServiceChange("time", value)
  \/ \E value \in Queries : ServiceChange("query", value)
  \/ ApplyTime
  \/ ApplyQuery
  \/ SubscriberEnd

SyncSpec == SyncInit /\ [][SyncNext]_vars

\* C38: connectToQueryState ignores its own updates. stateContainer.set is
\* never called while the state-container subscriber is applying a state to
\* the services: every call of it answers a change made in a service from
\* outside, so there are no more calls than such changes, and while the
\* subscriber runs the number of calls does not grow.
C38_IgnoresOwnUpdates ==
  /\ \A k \in 1..Len(calls) : ~calls[k].during
  /\ Len(calls) <= ev.stimuli
  /\ Len(ops) <= 2 * ev.stimuli

\* the subscriber has applied a container state to both services, each
\* setter's change was dropped by the filter, and no stateContainer.set was
\* called
C38_Witness ==
  /\ ev.pc = "idle" /\ ev.ignored = 2 /\ ev.stimuli = 1
  /\ Len(ops) = 2 /\ calls = <<>>
  /\ ev.services = ev.container

====
